---- MODULE Spec2Model ----
(***************************************************************************)
(* Model of the LULC tile selector (SkyServe-AI/tile-bbox-exporter):       *)
(*   - LULCClassifier.classify_tile, the rule cascade and fallback scoring *)
(*   - TileManager.apply_tile_size / validate_tile_size, the tiling engine *)
(*   - ImageTileSelector.save_mask_only, the mask exporter                 *)
(*   - ImageTileSelector.compute_accuracy_matrix and the mapping dialog,   *)
(*     the accuracy evaluator                                              *)
(*                                                                         *)
(* Real-valued features are kept as integers: channel means, variances,   *)
(* saturation and brightness in their own unit, edge_density in            *)
(* thousandths.  Ratios (ndvi, b_ratio, g_ratio, percentages) are never    *)
(* rounded: they are compared by cross-multiplication or kept as           *)
(* fractions <<numerator, denominator>>.                                   *)
(***************************************************************************)
EXTENDS Integers, Sequences, FiniteSets, TLC

VARIABLES
    \* ---- LULCClassifier.classify_tile ----
    features,               \* the feature values computed for one tile
    category,               \* the value classify_tile returned
    cstage,                 \* "idle" | "extracted" | "classified"
    \* ---- LULCClassifier.detect_cloud, one call ----
    tile_array,             \* the pixels of the tile, each with its HSV v and s
    cloud_threshold,        \* self.cloud_threshold, a fraction <<num, den>>
    cloud_result,           \* the pair detect_cloud returned
    \* ---- one tile given to both classify_tile implementations ----
    tile_shape,             \* tile.shape[:2] as <<rows, cols>>
    tile_edges,             \* np.sum(edges > 0) of the tile
    dataset_tile_size,      \* self.tile_size of the LULCTileClassifier
    dataset_category,       \* what LULCTileClassifier.classify_tile returned
    \* ---- ImageTileSelector (app.py _init_variables) ----
    images,                 \* loaded images, each with its path and pixel size
    current_image_index,    \* 0-based index into images
    tiles,                  \* tile list of the current image
    tile_size,              \* app.tile_size
    tile_size_var,          \* text of the tile size entry
    current_padded_image,   \* size of the padded image, NoImage before the first
    tile_classifications,   \* label per tile, <<>> when not classified
    selected_tiles,         \* set of flat tile indices (0-based) selected for export
    image_tile_selections,  \* dict: image path -> set of selected tile indices
    category_counts,        \* count shown in the legend for each category
    selected_tiles_for_category,  \* tile indices selected for batch assignment
    image_listbox,          \* number of entries of the image listbox
    exported_tiles,         \* <<image_name, row, col>> of the tile files written
    preprocess_enabled,     \* the Preprocess checkbox (a BooleanVar)
    preprocessed_image,     \* size of the corrected copy kept, NoImage for None
    tiles_image,            \* the raster the tiles were cut from
    category_values,        \* category name -> integer written into the mask
    category_value_vars,    \* text of the mask value entry of each category
    mask_array,             \* raster built by the latest save_mask_only, else <<>>
    app_message,            \* outcome of the latest handler
    \* ---- LULCClassifier.classify_tiles, one call ----
    ct_tiles,               \* the tiles argument: pixel content of each tile
    ct_filter_clouds,       \* self.filter_clouds of the classifier
    ct_callback,            \* TRUE when a progress_callback was passed
    ct_i,                   \* loop variable i of enumerate(tiles)
    ct_classifications,     \* the local list classifications
    ct_progress,            \* the calls of progress_callback made so far
    ct_classified,          \* the values of i whose tile went to classify_tile
    ct_stats,               \* stats of the latest analyze_image_bands
    ct_passes,              \* per tile: the passes of its pixels through
                            \* apply_band_correction so far
    ct_pc,                  \* "idle" | "examine" | "callback" | "returned"
    ct_caller,              \* "none" | "app" (classify_tiles_lulc) | "direct"
    \* ---- LULCTileClassifier (lulc_dataset.py), the batch classifier ----
    batch_tile_size,        \* self.tile_size
    batch_filter_clouds,    \* self.filter_clouds
    tile_counts,            \* self.tile_counts: category -> tiles saved
    cloud_filtered_count,   \* self.cloud_filtered_count
    batch_image,            \* the image file of the latest call
    batch_stats,            \* stats of the latest analyze_image_bands
    batch_tiles,            \* the list the latest extract_tiles returned
    batch_extracted,        \* number of tiles extract_tiles has returned in all
    batch_outcome,          \* how the latest call ended
    \* ---- accuracy evaluation (compute_accuracy_matrix and its dialog) ----
    pred_img,               \* predicted mask as loaded, rows of pixel values
    gt_img,                 \* ground-truth mask as loaded
    all_values,             \* sorted pixel values found in the two masks
    name_vars,              \* dialog entries: pixel value -> text typed
    known_values,           \* values passed to _compute_and_show_matrix
    value_to_cat,           \* value -> class name passed with them
    confusion,              \* the confusion matrix, <<>> until built
    per_class,              \* the OrderedDict of per-class metrics, in key order
    overall_accuracy,       \* fraction <<num, den>>
    acc_stage,              \* "idle" | "dialog" | "shown" | "closed"
    acc_message             \* the last message box of the evaluation

clsVars == <<features, category, cstage, tile_array, cloud_threshold,
             cloud_result, tile_shape, tile_edges, dataset_tile_size,
             dataset_category>>

\* the tile measured for both classifiers and the batch classifier's answer
eqVars == <<tile_shape, tile_edges, dataset_tile_size, dataset_category>>

\* the state of one detect_cloud call
dcVars == <<tile_array, cloud_threshold, cloud_result>>

appVars == <<images, current_image_index, tiles, tile_size, tile_size_var,
             current_padded_image, tile_classifications, selected_tiles,
             image_tile_selections, category_counts, selected_tiles_for_category,
             image_listbox, exported_tiles, preprocess_enabled,
             preprocessed_image, tiles_image, category_values,
             category_value_vars, mask_array, app_message>>

\* the selection for batch assignment, the listbox and the files written
guiVars == <<selected_tiles_for_category, image_listbox, exported_tiles>>

\* the Preprocess checkbox and the corrected copy of the current image
preVars == <<preprocess_enabled, preprocessed_image>>

\* the fields of the app that hold tile selections, legend counts and the
\* preprocessing state
selVars == <<selected_tiles, image_tile_selections, category_counts, guiVars,
             preVars>>

accVars == <<pred_img, gt_img, all_values, name_vars, known_values, value_to_cat,
             confusion, per_class, overall_accuracy, acc_stage, acc_message>>

ctVars == <<ct_tiles, ct_filter_clouds, ct_callback, ct_i, ct_classifications,
            ct_progress, ct_classified, ct_stats, ct_passes, ct_pc, ct_caller>>

batchVars == <<batch_tile_size, batch_filter_clouds, tile_counts,
               cloud_filtered_count, batch_image, batch_stats, batch_tiles,
               batch_extracted, batch_outcome>>

vars == <<clsVars, appVars, accVars, ctVars, batchVars>>

-----------------------------------------------------------------------------
(* LULCClassifier.CATEGORIES, in list order (ordinal index = position-1).   *)
CATEGORIES ==
    << "AnnualCrop", "Forest", "HerbaceousVegetation", "Highway",
       "Industrial", "Pasture", "PermanentCrop", "Residential",
       "River", "SeaLake" >>

CategorySet == { CATEGORIES[i] : i \in 1..Len(CATEGORIES) }

\* What a Python function yields when control leaves it without a return.
NoReturn == "None"

-----------------------------------------------------------------------------
(* Feature values.  Each of the five free features ranges over one value    *)
(* on every threshold the cascade compares it with and one value in every  *)
(* open interval between two thresholds, so every outcome of every         *)
(* comparison on that feature occurs.                                      *)
EdgeValues    == {50, 80, 90, 100, 110, 120, 150, 200, 250}
ColorVarValues == {10, 12, 15, 20, 21, 22, 23, 25, 26, 28, 29, 30, 35}
TextureValues == {50, 60, 80, 100, 120}
SatValues     == {20, 30, 32, 35, 40, 50, 55, 60, 65, 70, 80}
BrightValues  == {80, 90, 95, 100, 110, 120, 125, 130, 135, 140, 145, 150, 160}

(* Channel means <<b, g, r>>.                                              *)
MeanColors ==
    { <<0, 0, 0>>,         \* all-zero tile: total_rgb = 0, nir_proxy + red = 0
      <<120, 90, 90>>,     \* blue dominant, b > 80, b_ratio > 0.38
      <<80, 60, 70>>,      \* blue dominant but b = 80; b_ratio > 0.38
      <<81, 79, 72>>,      \* blue dominant, b_ratio <= 0.38, g_ratio > 0.34
      <<60, 100, 70>>,     \* green dominant, ndvi > 0.1, g_ratio > 0.40
      <<95, 100, 95>>,     \* green dominant, ndvi <= 0.05, 0.34 < g_ratio <= 0.35
      <<90, 100, 85>>,     \* green dominant, 0.05 < ndvi <= 0.1, g_ratio > 0.35
      <<100, 100, 80>>,    \* g = b, ndvi > 0.1, g_ratio > 0.35
      <<100, 100, 90>>,    \* g = b, 0.05 < ndvi <= 0.1, 0.34 < g_ratio <= 0.35
      <<90, 90, 120>> }    \* red dominant, g_ratio <= 0.34

NoFeatures == [ b |-> 0, g |-> 0, r |-> 0, edge_density |-> 0,
                texture_variance |-> 0, color_variance |-> 0,
                saturation |-> 0, brightness |-> 0 ]

-----------------------------------------------------------------------------
(* ndvi = (g - r) / (g + r) if g + r > 0 else 0, compared with num/den.    *)
NdviGT(f, num, den) ==
    IF f.g + f.r > 0
    THEN (f.g - f.r) * den > num * (f.g + f.r)
    ELSE 0 > num

(* b_ratio, g_ratio = channel / total_rgb if total_rgb > 0 else 0.33,      *)
(* compared with pct/100.                                                  *)
BRatioGT(f, pct) ==
    IF f.b + f.g + f.r > 0
    THEN f.b * 100 > pct * (f.b + f.g + f.r)
    ELSE 33 > pct

GRatioGT(f, pct) ==
    IF f.b + f.g + f.r > 0
    THEN f.g * 100 > pct * (f.b + f.g + f.r)
    ELSE 33 > pct

GRatioLT(f, pct) ==
    IF f.b + f.g + f.r > 0
    THEN f.g * 100 < pct * (f.b + f.g + f.r)
    ELSE 33 < pct

-----------------------------------------------------------------------------
(* The cascade.  Each rule yields the category it returns, or NoReturn     *)
(* when control falls through to the statement after it.                   *)

WaterCondition(f) ==
    \/ (f.b > f.g /\ f.b > f.r /\ f.b > 80)
    \/ (BRatioGT(f, 38) /\ f.brightness < 150)

\* variant: the elif of the water block tests > instead of >=
WaterRule_StrictElif(f) ==
    IF WaterCondition(f)
    THEN IF f.edge_density < 80 /\ f.color_variance < 25
         THEN "SeaLake"
         ELSE IF f.edge_density > 80 \/ f.color_variance > 25
              THEN "River"
              ELSE NoReturn
    ELSE NoReturn

WaterRule(f) ==
    IF WaterCondition(f)
    THEN IF f.edge_density < 80 /\ f.color_variance < 25
         THEN "SeaLake"
         ELSE IF f.edge_density >= 80 \/ f.color_variance >= 25
              THEN "River"
              ELSE NoReturn
    ELSE NoReturn

ResidentialRule(f) ==
    IF f.edge_density > 100 /\ f.color_variance > 22 /\ f.texture_variance > 60
    THEN IF GRatioLT(f, 40) \/ f.saturation < 70
         THEN "Residential"
         ELSE NoReturn
    ELSE NoReturn

HighwayRule(f) ==
    IF f.saturation < 35 /\ f.edge_density > 80 /\ f.edge_density < 200
    THEN IF f.color_variance < 28 /\ f.brightness < 130
         THEN "Highway"
         ELSE NoReturn
    ELSE NoReturn

ForestRule(f) ==
    IF /\ f.g > f.r /\ f.g > f.b /\ f.brightness < 140 /\ NdviGT(f, 1, 10)
       /\ (f.edge_density > 120 \/ f.texture_variance > 100)
    THEN "Forest"
    ELSE NoReturn

AnnualCropRule(f) ==
    IF f.g > f.r /\ f.g > f.b /\ f.edge_density > 80
    THEN IF f.saturation > 35 /\ f.color_variance > 12 /\ f.brightness > 90
         THEN "AnnualCrop"
         ELSE NoReturn
    ELSE NoReturn

PermanentCropRule(f) ==
    IF f.g > f.r /\ f.g > f.b /\ f.saturation > 30
    THEN IF f.edge_density < 100 /\ f.brightness > 100 /\ f.color_variance < 25
         THEN "PermanentCrop"
         ELSE NoReturn
    ELSE NoReturn

VegetationRule(f) ==
    IF GRatioGT(f, 35) /\ NdviGT(f, 5, 100)
    THEN IF f.color_variance < 20 /\ f.saturation < 60
         THEN "Pasture"
         ELSE IF f.color_variance >= 20 \/ f.saturation >= 60
              THEN "HerbaceousVegetation"
              ELSE NoReturn
    ELSE NoReturn

IndustrialRule(f) ==
    IF f.color_variance < 30 /\ f.saturation < 50 /\ f.edge_density < 100
    THEN "Industrial"
    ELSE NoReturn

-----------------------------------------------------------------------------
(* DEFAULT CLASSIFICATION: the scores dict, keys in insertion order.       *)
ScoreKeys == << "Pasture", "HerbaceousVegetation", "Industrial", "Forest",
                "AnnualCrop" >>

ScoreKeySet == { ScoreKeys[i] : i \in 1..Len(ScoreKeys) }

Bump(scores, keys, n) ==
    [ k \in DOMAIN scores |-> IF k \in keys THEN scores[k] + n ELSE scores[k] ]

\* variant: the greenness bonus of Pasture and HerbaceousVegetation swapped
DefaultScores_HerbaceousBonus(f) ==
    LET s0 == [ k \in ScoreKeySet |-> 0 ]
        s1 == IF GRatioGT(f, 34)
              THEN Bump(Bump(s0, {"HerbaceousVegetation"}, 2), {"Pasture"}, 1)
              ELSE s0
        s2 == IF f.edge_density > 100
              THEN Bump(s1, {"AnnualCrop", "Forest"}, 1)
              ELSE Bump(s1, {"Pasture", "Industrial"}, 1)
        s3 == IF f.brightness > 120
              THEN Bump(s2, {"Pasture", "HerbaceousVegetation"}, 1)
              ELSE Bump(s2, {"Forest", "Industrial"}, 1)
    IN  s3

DefaultScores(f) ==
    LET s0 == [ k \in ScoreKeySet |-> 0 ]
        s1 == IF GRatioGT(f, 34)
              THEN Bump(Bump(s0, {"Pasture"}, 2), {"HerbaceousVegetation"}, 1)
              ELSE s0
        s2 == IF f.edge_density > 100
              THEN Bump(s1, {"AnnualCrop", "Forest"}, 1)
              ELSE Bump(s1, {"Pasture", "Industrial"}, 1)
        s3 == IF f.brightness > 120
              THEN Bump(s2, {"Pasture", "HerbaceousVegetation"}, 1)
              ELSE Bump(s2, {"Forest", "Industrial"}, 1)
    IN  s3

(* max(scores, key=scores.get): walk the keys in insertion order and keep  *)
(* a key only when its score is greater than the best so far.              *)
RECURSIVE MaxFrom(_, _, _)
MaxFrom(scores, i, best) ==
    IF i > Len(ScoreKeys)
    THEN best
    ELSE MaxFrom(scores, i + 1,
                 IF scores[ScoreKeys[i]] > scores[best] THEN ScoreKeys[i] ELSE best)

\* variant: a later key replaces the best on an equal score
MaxKeyLastWins(scores) ==
    LET top == CHOOSE k \in ScoreKeySet : \A j \in ScoreKeySet : scores[j] <= scores[k]
        idx == CHOOSE i \in 1..Len(ScoreKeys) :
                   /\ scores[ScoreKeys[i]] = scores[top]
                   /\ \A j \in (i+1)..Len(ScoreKeys) : scores[ScoreKeys[j]] < scores[top]
    IN  ScoreKeys[idx]

\* variant: no result unless one key has the strictly highest score
MaxKeyStrictOnly(scores) ==
    IF \E k \in ScoreKeySet : \A j \in ScoreKeySet \ {k} : scores[j] < scores[k]
    THEN CHOOSE k \in ScoreKeySet : \A j \in ScoreKeySet \ {k} : scores[j] < scores[k]
    ELSE NoReturn

MaxKey(scores) == MaxFrom(scores, 2, ScoreKeys[1])

DefaultClassification(f) == MaxKey(DefaultScores(f))

\* variant: the Highway block placed before the Residential block
classify_tile_HighwayFirst(f) ==
    IF WaterRule(f) # NoReturn THEN WaterRule(f)
    ELSE IF HighwayRule(f) # NoReturn THEN HighwayRule(f)
    ELSE IF ResidentialRule(f) # NoReturn THEN ResidentialRule(f)
    ELSE IF ForestRule(f) # NoReturn THEN ForestRule(f)
    ELSE IF AnnualCropRule(f) # NoReturn THEN AnnualCropRule(f)
    ELSE IF PermanentCropRule(f) # NoReturn THEN PermanentCropRule(f)
    ELSE IF VegetationRule(f) # NoReturn THEN VegetationRule(f)
    ELSE IF IndustrialRule(f) # NoReturn THEN IndustrialRule(f)
    ELSE DefaultClassification(f)

classify_tile(f) ==
    IF WaterRule(f) # NoReturn THEN WaterRule(f)
    ELSE IF ResidentialRule(f) # NoReturn THEN ResidentialRule(f)
    ELSE IF HighwayRule(f) # NoReturn THEN HighwayRule(f)
    ELSE IF ForestRule(f) # NoReturn THEN ForestRule(f)
    ELSE IF AnnualCropRule(f) # NoReturn THEN AnnualCropRule(f)
    ELSE IF PermanentCropRule(f) # NoReturn THEN PermanentCropRule(f)
    ELSE IF VegetationRule(f) # NoReturn THEN VegetationRule(f)
    ELSE IF IndustrialRule(f) # NoReturn THEN IndustrialRule(f)
    ELSE DefaultClassification(f)

-----------------------------------------------------------------------------
(* ACCURACY EVALUATOR: compute_accuracy_matrix, _show_value_mapping_dialog, *)
(* on_compute, _compute_and_show_matrix (app.py).                          *)

(* The text of an entry widget is a sequence of one-character strings.     *)
UpperCase == << "A", "B", "C", "D", "E", "F", "G", "H", "I", "J", "K", "L", "M",
                "N", "O", "P", "Q", "R", "S", "T", "U", "V", "W", "X", "Y", "Z" >>
LowerCase == << "a", "b", "c", "d", "e", "f", "g", "h", "i", "j", "k", "l", "m",
                "n", "o", "p", "q", "r", "s", "t", "u", "v", "w", "x", "y", "z" >>

LowerChar(c) ==
    IF \E i \in 1..Len(UpperCase) : UpperCase[i] = c
    THEN LowerCase[CHOOSE i \in 1..Len(UpperCase) : UpperCase[i] = c]
    ELSE c

\* variant: lower() left out, the text is compared as typed
lower_Identity(t) == t

\* str.lower()
lower(t) == [ i \in 1..Len(t) |-> LowerChar(t[i]) ]

\* str.strip(): leading and trailing whitespace removed
RECURSIVE lstrip(_)
lstrip(t) == IF t # <<>> /\ Head(t) = " " THEN lstrip(Tail(t)) ELSE t

RECURSIVE rstrip(_)
rstrip(t) ==
    IF t # <<>> /\ t[Len(t)] = " " THEN rstrip(SubSeq(t, 1, Len(t) - 1)) ELSE t

strip(t) == rstrip(lstrip(t))

IgnoreText == << "i", "g", "n", "o", "r", "e" >>

(* The category names as entry text (pre-filled dialog defaults).          *)
CategoryText ==
    [ AnnualCrop |-> << "A","n","n","u","a","l","C","r","o","p" >>,
      Forest |-> << "F","o","r","e","s","t" >>,
      HerbaceousVegetation |-> << "H","e","r","b","a","c","e","o","u","s",
                                  "V","e","g","e","t","a","t","i","o","n" >>,
      Highway |-> << "H","i","g","h","w","a","y" >>,
      Industrial |-> << "I","n","d","u","s","t","r","i","a","l" >>,
      Pasture |-> << "P","a","s","t","u","r","e" >>,
      PermanentCrop |-> << "P","e","r","m","a","n","e","n","t","C","r","o","p" >>,
      Residential |-> << "R","e","s","i","d","e","n","t","i","a","l" >>,
      River |-> << "R","i","v","e","r" >>,
      SeaLake |-> << "S","e","a","L","a","k","e" >> ]

(* What the user may type into a name entry of the dialog.                 *)
TypedNames ==
    { <<>>,                                       \* blank
      << " ", "I", "G", "n", "o", "r", "e", " " >>, \* 'ignore', mixed case, padded
      << "A" >>,
      << "B" >> }

(* Mask files the user may select.  A raster is a sequence of rows; the    *)
(* unreadable file decodes to nothing.                                     *)
PixelValues == {1, 2, 255}
SmallShapes == { <<1, 1>>, <<1, 2>>, <<2, 1>> }
Unreadable == <<>>

MaskRasters ==
    UNION { [ 1..s[1] -> [ 1..s[2] -> PixelValues ] ] : s \in SmallShapes }
    \cup [ 1..2 -> [ 1..2 -> {1, 2} ] ]

MaskFiles == MaskRasters \cup {Unreadable}

\* variant: only the heights are compared
shape_HeightOnly(a) == << Len(a), 0 >>

\* ndarray.shape of a 2-D array: (rows, columns)
shape(a) == << Len(a), Len(a[1]) >>

\* np.unique as a set
unique(a) == { a[y][x] : y \in 1..Len(a), x \in 1..Len(a[1]) }

\* sorted(set): ascending sequence of the members
RECURSIVE sorted(_)
sorted(S) ==
    IF S = {} THEN <<>>
    ELSE LET m == CHOOSE v \in S : \A u \in S : v <= u
         IN  <<m>> \o sorted(S \ {m})

(* current_val_to_cat / default_name (lines 546-572): the reverse of       *)
(* category_values, a later category replacing an earlier one on the same  *)
(* value; 255 is pre-filled with 'ignore'.                                 *)
default_name(val) ==
    IF val = 255 THEN IgnoreText
    ELSE IF \E i \in 1..Len(CATEGORIES) : category_values[CATEGORIES[i]] = val
         THEN CategoryText[CATEGORIES[
                  CHOOSE i \in 1..Len(CATEGORIES) :
                      /\ category_values[CATEGORIES[i]] = val
                      /\ \A j \in (i+1)..Len(CATEGORIES) :
                             category_values[CATEGORIES[j]] # val ]]
         ELSE <<>>

(* pred_img[gt_mask] with gt_mask = (gt_img == gt_val): the predicted      *)
(* values at the selected positions, flattened in row-major order.         *)
RECURSIVE SelectFrom(_, _, _, _)
SelectFrom(pred, gt, gt_val, k) ==
    LET w == Len(gt[1])
        y == ((k - 1) \div w) + 1
        x == ((k - 1) % w) + 1
    IN  IF k > Len(gt) * w THEN <<>>
        ELSE (IF gt[y][x] = gt_val THEN << pred[y][x] >> ELSE <<>>)
             \o SelectFrom(pred, gt, gt_val, k + 1)

\* np.sum(seq == v)
RECURSIVE CountEqual(_, _)
CountEqual(seq, v) ==
    IF seq = <<>> THEN 0
    ELSE (IF Head(seq) = v THEN 1 ELSE 0) + CountEqual(Tail(seq), v)

\* variant: the two loop indices exchanged when the entry is stored
ConfusionTransposed(pred, gt, kv) ==
    [ i \in 1..Len(kv) |-> [ j \in 1..Len(kv) |->
        CountEqual(SelectFrom(pred, gt, kv[j], 1), kv[i]) ] ]

\* lines 622-630
ConfusionMatrix(pred, gt, kv) ==
    [ i \in 1..Len(kv) |-> [ j \in 1..Len(kv) |->
        CountEqual(SelectFrom(pred, gt, kv[i], 1), kv[j]) ] ]

RECURSIVE SumSeq(_)
SumSeq(s) == IF s = <<>> THEN 0 ELSE Head(s) + SumSeq(Tail(s))

MatrixSum(m) == SumSeq([ i \in 1..Len(m) |-> SumSeq(m[i]) ])
Trace(m) == SumSeq([ i \in 1..Len(m) |-> m[i][i] ])
RowSum(m, i) == SumSeq(m[i])
ColSum(m, i) == SumSeq([ k \in 1..Len(m) |-> m[k][i] ])

(* Exact fractions <<num, den>>, den > 0, in lowest terms.                 *)
RECURSIVE GCD(_, _)
GCD(a, b) == IF b = 0 THEN a ELSE GCD(b, a % b)

Frac(n, d) == LET g == GCD(n, d) IN IF n = 0 THEN <<0, 1>> ELSE << n \div g, d \div g >>
FracZero == <<0, 1>>
FracAdd(a, b) == Frac(a[1] * b[2] + b[1] * a[2], a[2] * b[2])
FracMul(a, b) == Frac(a[1] * b[1], a[2] * b[2])
FracDiv(a, b) == Frac(a[1] * b[2], a[2] * b[1])
FracPositive(a) == a[1] > 0

\* line 635
OverallAccuracy(m) ==
    IF MatrixSum(m) > 0 THEN Frac(Trace(m) * 100, MatrixSum(m)) ELSE FracZero

\* variant: row and column sums exchanged
ClassMetrics_SwappedSums(m, kv, v2c, i) ==
    LET tp      == m[i][i]
        row_sum == ColSum(m, i)
        col_sum == RowSum(m, i)
        recall    == IF row_sum > 0 THEN Frac(tp * 100, row_sum) ELSE FracZero
        precision == IF col_sum > 0 THEN Frac(tp * 100, col_sum) ELSE FracZero
        f1 == IF FracPositive(FracAdd(precision, recall))
              THEN FracDiv(FracMul(<<2, 1>>, FracMul(precision, recall)),
                           FracAdd(precision, recall))
              ELSE FracZero
    IN  [ name |-> v2c[kv[i]], value |-> kv[i], tp |-> tp,
          gt_total |-> row_sum, pred_total |-> col_sum,
          recall |-> recall, precision |-> precision, f1 |-> f1 ]

\* lines 639-651: the entry stored under cat_name for known_values[i]
ClassMetrics(m, kv, v2c, i) ==
    LET tp      == m[i][i]
        row_sum == RowSum(m, i)
        col_sum == ColSum(m, i)
        recall    == IF row_sum > 0 THEN Frac(tp * 100, row_sum) ELSE FracZero
        precision == IF col_sum > 0 THEN Frac(tp * 100, col_sum) ELSE FracZero
        f1 == IF FracPositive(FracAdd(precision, recall))
              THEN FracDiv(FracMul(<<2, 1>>, FracMul(precision, recall)),
                           FracAdd(precision, recall))
              ELSE FracZero
    IN  [ name |-> v2c[kv[i]], value |-> kv[i], tp |-> tp,
          gt_total |-> row_sum, pred_total |-> col_sum,
          recall |-> recall, precision |-> precision, f1 |-> f1 ]

\* OrderedDict.__setitem__: an existing key keeps its place, a new key is
\* appended
DictPut(d, entry) ==
    IF \E k \in 1..Len(d) : d[k].name = entry.name
    THEN [ k \in 1..Len(d) |-> IF d[k].name = entry.name THEN entry ELSE d[k] ]
    ELSE Append(d, entry)

\* lines 637-651
RECURSIVE PerClassFrom(_, _, _, _, _)
PerClassFrom(m, kv, v2c, i, d) ==
    IF i > Len(kv) THEN d
    ELSE PerClassFrom(m, kv, v2c, i + 1, DictPut(d, ClassMetrics(m, kv, v2c, i)))

PerClass(m, kv, v2c) == PerClassFrom(m, kv, v2c, 1, <<>>)

\* on_compute lines 589-595: the values whose entry names a class
RECURSIVE KnownFrom(_, _, _)
KnownFrom(vals, names, i) ==
    IF i > Len(vals) THEN <<>>
    ELSE LET name == strip(names[vals[i]])
         IN  (IF name # <<>> /\ lower(name) # IgnoreText THEN << vals[i] >> ELSE <<>>)
             \o KnownFrom(vals, names, i + 1)

AccIdle ==
    /\ pred_img = <<>> /\ gt_img = <<>> /\ all_values = <<>>
    /\ name_vars = <<>> /\ known_values = <<>> /\ value_to_cat = <<>>
    /\ confusion = <<>> /\ per_class = <<>> /\ overall_accuracy = FracZero
    /\ acc_stage = "idle" /\ acc_message = "none"

(* compute_accuracy_matrix (lines 457-503) with the dialog it opens        *)
(* (_show_value_mapping_dialog, lines 505-581).  The two file dialogs are  *)
(* answered with pred and gt.                                              *)
ComputeAccuracyMatrix ==
    /\ acc_stage = "idle"
    /\ \E pred \in MaskFiles, gt \in MaskFiles :
          IF pred = Unreadable \/ gt = Unreadable
          THEN /\ acc_message' = "load_failed"
               /\ acc_stage' = "closed"
               /\ UNCHANGED <<pred_img, gt_img, all_values, name_vars>>
          ELSE /\ pred_img' = pred
               /\ gt_img' = gt
               /\ IF shape(pred) # shape(gt)
                  THEN /\ acc_message' = "dimension_mismatch"
                       /\ acc_stage' = "closed"
                       /\ UNCHANGED <<all_values, name_vars>>
                  ELSE /\ all_values' = sorted(unique(pred) \cup unique(gt))
                       /\ name_vars' = [ v \in unique(pred) \cup unique(gt) |->
                                           default_name(v) ]
                       /\ acc_stage' = "dialog"
                       /\ UNCHANGED acc_message
    /\ UNCHANGED <<known_values, value_to_cat, confusion, per_class, overall_accuracy>>
    /\ UNCHANGED <<clsVars, appVars, ctVars, batchVars>>

(* The user types a name into the entry of one pixel value.                *)
EditName ==
    /\ acc_stage = "dialog"
    /\ \E v \in DOMAIN name_vars, t \in TypedNames :
          name_vars' = [ name_vars EXCEPT ![v] = t ]
    /\ UNCHANGED <<pred_img, gt_img, all_values, known_values, value_to_cat,
                   confusion, per_class, overall_accuracy, acc_stage, acc_message>>
    /\ UNCHANGED <<clsVars, appVars, ctVars, batchVars>>

(* on_compute (lines 587-605) and, when it accepts the mapping,            *)
(* _compute_and_show_matrix (lines 615-654).                               *)
OnCompute ==
    /\ acc_stage = "dialog"
    /\ LET kv  == KnownFrom(all_values, name_vars, 1)
           v2c == [ v \in { kv[i] : i \in 1..Len(kv) } |-> strip(name_vars[v]) ]
       IN  IF Len(kv) < 2
           THEN /\ acc_message' = "need_two_classes"
                /\ UNCHANGED <<known_values, value_to_cat, confusion, per_class,
                               overall_accuracy, acc_stage>>
           ELSE /\ known_values' = kv
                /\ value_to_cat' = v2c
                /\ confusion' = ConfusionMatrix(pred_img, gt_img, kv)
                /\ overall_accuracy' =
                       OverallAccuracy(ConfusionMatrix(pred_img, gt_img, kv))
                /\ per_class' = PerClass(ConfusionMatrix(pred_img, gt_img, kv), kv, v2c)
                /\ acc_stage' = "shown"
                /\ acc_message' = "none"
    /\ UNCHANGED <<pred_img, gt_img, all_values, name_vars>>
    /\ UNCHANGED <<clsVars, appVars, ctVars, batchVars>>

(* The Cancel button of the dialog: dialog.destroy.                        *)
CancelDialog ==
    /\ acc_stage = "dialog"
    /\ acc_stage' = "closed"
    /\ UNCHANGED <<pred_img, gt_img, all_values, name_vars, known_values,
                   value_to_cat, confusion, per_class, overall_accuracy, acc_message>>
    /\ UNCHANGED <<clsVars, appVars, ctVars, batchVars>>

-----------------------------------------------------------------------------
(* TILE SELECTOR: tiling engine (tile_manager.py), image loading           *)
(* (image_handler.py), classification labels and mask export (app.py).     *)

Digits == << "0", "1", "2", "3", "4", "5", "6", "7", "8", "9" >>

IsDigit(c) == \E i \in 1..Len(Digits) : Digits[i] = c
DigitValue(c) == (CHOOSE i \in 1..Len(Digits) : Digits[i] = c) - 1

RECURSIVE DigitsValue(_, _)
DigitsValue(t, acc) ==
    IF t = <<>> THEN acc ELSE DigitsValue(Tail(t), acc * 10 + DigitValue(Head(t)))

(* int(text): surrounding whitespace and one sign are accepted, then only  *)
(* decimal digits; anything else is a ValueError (ok = FALSE).             *)
int(t) ==
    LET s    == strip(t)
        neg  == s # <<>> /\ Head(s) = "-"
        body == IF s # <<>> /\ Head(s) \in {"-", "+"} THEN Tail(s) ELSE s
    IN  IF body = <<>> \/ \E i \in 1..Len(body) : ~IsDigit(body[i])
        THEN [ ok |-> FALSE, val |-> 0 ]
        ELSE [ ok |-> TRUE,
               val |-> IF neg THEN 0 - DigitsValue(body, 0) ELSE DigitsValue(body, 0) ]

(* str(n) for n >= 0                                                       *)
RECURSIVE str(_)
str(n) == IF n < 10 THEN << Digits[n + 1] >> ELSE str(n \div 10) \o << Digits[(n % 10) + 1] >>

\* math.ceil(a / b) for positive b
ceil_div(a, b) == (a + b - 1) \div b

(* Files the user can pick.  An image file has a path and the pixel size   *)
(* PIL reports for it; a file that Image.open rejects has loads = FALSE.   *)
ImageFiles ==
    { [ path |-> "a.png", loads |-> TRUE, width |-> 4, height |-> 2 ],
      [ path |-> "b.png", loads |-> TRUE, width |-> 3, height |-> 3 ],
      [ path |-> "broken.png", loads |-> FALSE, width |-> 0, height |-> 0 ] }

MaxImages == 1

(* Sequences of 1..MaxImages distinct files: an answer of the file dialog. *)
FileSelections(F) ==
    { s \in UNION { [ 1..n -> F ] : n \in 1..MaxImages } :
        \A i, j \in 1..Len(s) : i # j => s[i] # s[j] }

(* What the user may type into the tile size entry.                        *)
TileSizeTexts ==
    { << "2" >>, << " ", "3" >>, << "0" >>, << "-", "2" >>, << "x" >>, <<>> }

(* What the user may type into a mask value entry of the legend, and the   *)
(* categories whose entry is edited.                                       *)
MaskValueTexts == { << "7" >>, << "3", "0", "0" >>, << "x" >> }
EditedCategories == { "Forest" }

(* Labels classify_tiles may give a tile: 'Cloud' from the cloud detector  *)
(* or a category from classify_tile; the context menus offer the same.     *)
TileLabels == { "Forest", "River", "Cloud" }

NoImage == [ width |-> 0, height |-> 0 ]

DefaultValue == 255

\* validate_tile_size: the tile size after the entry text has been read
ValidatedTileSize(text, old) ==
    IF int(text).ok /\ int(text).val > 0 THEN int(text).val ELSE old

\* validate_tile_size: the entry text afterwards (reset on the error path)
ValidatedTileSizeVar(text, old) ==
    IF int(text).ok /\ int(text).val > 0 THEN text ELSE str(old)

\* variant: floor division, the partial last row and column are dropped
TilesFor_Floor(img, ts) ==
    LET tiles_x == img.width \div ts
        tiles_y == img.height \div ts
    IN  [ k \in 1..(tiles_x * tiles_y) |->
            LET row == (k - 1) \div tiles_x
                col == (k - 1) % tiles_x
            IN  [ image_name |-> img.path, row |-> row, col |-> col,
                  x |-> col * ts, y |-> row * ts,
                  tile_img |-> [ width |-> ts, height |-> ts ] ] ]

\* apply_tile_size lines 52-100: the tile list of an image for a tile size,
\* the k-th tile appended being that of the k-th pass of the nested loops
TilesFor(img, ts) ==
    LET tiles_x == ceil_div(img.width, ts)
        tiles_y == ceil_div(img.height, ts)
    IN  [ k \in 1..(tiles_x * tiles_y) |->
            LET row == (k - 1) \div tiles_x
                col == (k - 1) % tiles_x
                x   == col * ts
                y   == row * ts
            IN  [ image_name |-> img.path, row |-> row, col |-> col,
                  x |-> x, y |-> y,
                  tile_img |-> [ width |-> (x + ts) - x, height |-> (y + ts) - y ] ] ]

\* apply_tile_size lines 56-66: size of the padded image
PaddedFor(img, ts) ==
    [ width |-> ceil_div(img.width, ts) * ts,
      height |-> ceil_div(img.height, ts) * ts ]

\* an empty dict, and the dict operations used on image_tile_selections
EmptyDict == <<>>

\* d.get(key, set())
DictGet(d, key) == IF key \in DOMAIN d THEN d[key] ELSE {}

\* d[key] = value
DictSet(d, key, value) ==
    [ k \in (DOMAIN d) \cup {key} |-> IF k = key THEN value ELSE d[k] ]

\* apply_tile_size lines 72-89: the tile indices found in the saved selection
RestoredSelection(img, ts, sels) ==
    { i \in 0..(Len(TilesFor(img, ts)) - 1) : i \in DictGet(sels, img.path) }

\* Counter(tile_classifications) read for each of the 10 categories
CountsOf(labels) ==
    [ c \in CategorySet |-> Cardinality({ i \in 1..Len(labels) : labels[i] = c }) ]

AppInit ==
    /\ images = <<>>
    /\ current_image_index = 0
    /\ tiles = <<>>
    /\ tile_size = 100
    /\ tile_size_var = str(100)
    /\ current_padded_image = NoImage
    /\ tile_classifications = <<>>
    /\ selected_tiles = {}
    /\ image_tile_selections = EmptyDict
    /\ category_counts = [ c \in CategorySet |-> 0 ]
    /\ selected_tiles_for_category = {}
    /\ image_listbox = 0
    /\ exported_tiles = {}
    /\ preprocess_enabled = FALSE
    /\ preprocessed_image = NoImage
    /\ tiles_image = "original"
    /\ category_values = [ c \in CategorySet |->
                             (CHOOSE i \in 1..Len(CATEGORIES) : CATEGORIES[i] = c) - 1 ]
    /\ category_value_vars = [ c \in CategorySet |->
                             str((CHOOSE i \in 1..Len(CATEGORIES) : CATEGORIES[i] = c) - 1) ]
    /\ mask_array = <<>>
    /\ app_message = "none"

(* The user types into the tile size entry.                                *)
EditTileSizeEntryFrom(Texts) ==
    /\ \E t \in Texts : tile_size_var' = t
    /\ mask_array' = <<>>
    /\ app_message' = "none"
    /\ UNCHANGED <<images, current_image_index, tiles, tile_size, current_padded_image, tiles_image,
                   tile_classifications, category_values, category_value_vars>>
    /\ UNCHANGED <<selVars, clsVars, accVars, ctVars, batchVars>>

EditTileSizeEntry == EditTileSizeEntryFrom(TileSizeTexts)

(* validate_tile_size as the <FocusOut> handler of the entry               *)
(* (ui_components.py line 145).                                            *)
ValidateTileSize ==
    /\ tile_size' = ValidatedTileSize(tile_size_var, tile_size)
    /\ tile_size_var' = ValidatedTileSizeVar(tile_size_var, tile_size)
    /\ app_message' = IF int(tile_size_var).ok /\ int(tile_size_var).val > 0
                      THEN "none" ELSE "tile_size_error"
    /\ mask_array' = <<>>
    /\ UNCHANGED <<images, current_image_index, tiles, current_padded_image, tiles_image,
                   tile_classifications, category_values, category_value_vars>>
    /\ UNCHANGED <<selVars, clsVars, accVars, ctVars, batchVars>>

(* The body of apply_tile_size (lines 28-102) as a relation on the app     *)
(* state, for the handlers that call it; use_preprocessed is the outcome   *)
(* of lines 44-45, the corrected copy having the size of the original.     *)
ApplyTileSizeWith(imgs, idx, sels, use_preprocessed) ==
    IF imgs = <<>>
    THEN /\ UNCHANGED <<tile_size, tile_size_var, tiles, current_padded_image, tiles_image,
                        tile_classifications, selected_tiles>>
         /\ app_message' = "none"
    ELSE LET ts == ValidatedTileSize(tile_size_var, tile_size)
         IN  /\ tile_size' = ts
             /\ tile_size_var' = ValidatedTileSizeVar(tile_size_var, tile_size)
             /\ app_message' = IF int(tile_size_var).ok /\ int(tile_size_var).val > 0
                               THEN "tiled" ELSE "tiled_after_tile_size_error"
             /\ tile_classifications' = <<>>
             /\ current_padded_image' = PaddedFor(imgs[idx + 1], ts)
             /\ tiles' = TilesFor(imgs[idx + 1], ts)
             /\ tiles_image' = IF use_preprocessed THEN "preprocessed" ELSE "original"
             /\ selected_tiles' = RestoredSelection(imgs[idx + 1], ts, sels)

\* apply_tile_size called after _clear_classifications, which has unset the
\* Preprocess checkbox and dropped the corrected copy
ApplyTileSizeTo(imgs, idx, sels) == ApplyTileSizeWith(imgs, idx, sels, FALSE)

\* _clear_classifications lines 247-250
ClearPreprocessed ==
    /\ preprocess_enabled' = FALSE
    /\ preprocessed_image' = NoImage

(* The Apply button.                                                       *)
ApplyTileSize ==
    /\ ApplyTileSizeWith(images, current_image_index, image_tile_selections,
                         preprocess_enabled /\ preprocessed_image # NoImage)
    /\ mask_array' = <<>>
    /\ UNCHANGED <<images, current_image_index, category_values, category_value_vars,
                   image_tile_selections, category_counts, guiVars, preVars>>
    /\ UNCHANGED <<clsVars, accVars, ctVars, batchVars>>

\* upload_images lines 40-45: the files that open, in selection order
Loaded(sel) == SelectSeq(sel, LAMBDA f : f.loads)

(* upload_images (image_handler.py lines 29-50), the dialog answered with  *)
(* one of the given selections of files.                                   *)
UploadImagesOf(Selections) ==
    \E sel \in Selections :
        /\ images' = Loaded(sel)
        /\ image_tile_selections' = EmptyDict
        /\ category_counts' = [ c \in CategorySet |-> 0 ]
        /\ ClearPreprocessed
        /\ IF Loaded(sel) # <<>>
           THEN /\ current_image_index' = 0
                /\ image_listbox' = Len(Loaded(sel))
                /\ ApplyTileSizeTo(Loaded(sel), 0, EmptyDict)
           ELSE \* _clear_classifications ran; the tile list and the listbox
                \* are left as they were
                /\ tile_classifications' = <<>>
                /\ app_message' = "load_failed"
                /\ UNCHANGED <<current_image_index, tile_size, tile_size_var, tiles,
                               current_padded_image, tiles_image, selected_tiles, image_listbox>>
        /\ mask_array' = <<>>
        /\ UNCHANGED <<category_values, category_value_vars,
                       selected_tiles_for_category, exported_tiles>>
        /\ UNCHANGED <<clsVars, accVars, ctVars, batchVars>>

(* upload_images, the dialog answered with up to MaxImages files of F.     *)
UploadImagesFrom(F) == UploadImagesOf(FileSelections(F))

UploadImages == UploadImagesFrom(ImageFiles)

(* Inputs for the tiling engine alone: an image of every size up to        *)
(* MaxWidth x MaxHeight and every tile size up to MaxTileSize.             *)
MaxWidth == 5
MaxHeight == 4
MaxTileSize == 4

TilingFiles ==
    { [ path |-> "t.png", loads |-> TRUE, width |-> w, height |-> h ] :
        w \in 1..MaxWidth, h \in 1..MaxHeight }

TilingTexts == { str(n) : n \in 0..MaxTileSize }

\* one file is picked: tiling reads the current image only
UploadTilingImage == UploadImagesOf({ << f >> : f \in TilingFiles })

EditTilingSizeEntry == EditTileSizeEntryFrom(TilingTexts)

-----------------------------------------------------------------------------
(* TILE CLASSIFICATION: LULCClassifier.classify_tiles with its helpers      *)
(* analyze_image_bands and detect_cloud (lulc_classifier.py).               *)

\* the ratio 0/0 that numpy yields for a zero total_mean
NaN == <<0, 0>>

\* analyze_image_bands (lines 47-65) on the channel means <<blue, green, red>>;
\* a comparison with nan is False
analyze_image_bands(means) ==
    LET total_mean == means[1] + means[2] + means[3]
        ratio(m) == IF total_mean = 0 THEN NaN ELSE Frac(m, total_mean)
    IN  [ means |-> means,
          ratios |-> [ blue |-> ratio(means[1]), green |-> ratio(means[2]),
                       red |-> ratio(means[3]) ],
          green_bias |-> (total_mean # 0 /\ means[2] * 100 > 40 * total_mean) ]

NoStats ==
    [ means |-> <<0, 0, 0>>,
      ratios |-> [ blue |-> FracZero, green |-> FracZero, red |-> FracZero ],
      green_bias |-> FALSE ]

\* cloud_threshold=0.7 (app.py line 273, lulc_classifier.py line 41)
CloudThreshold == <<7, 10>>

\* cloud_result before detect_cloud has returned
NoCloudResult == [ is_cloud |-> FALSE, cloud_pixel_ratio |-> <<0, 0>> ]

\* variant: a ratio equal to the threshold counts as cloud
detect_cloud_AtLeast(tile, threshold) ==
    tile.cloud_ratio[1] * threshold[2] >= threshold[1] * tile.cloud_ratio[2]

\* detect_cloud (lines 90-99): is_cloud, from the fraction of pixels with
\* v > 200 and s < 40
detect_cloud(tile, threshold) ==
    tile.cloud_ratio[1] * threshold[2] > threshold[1] * tile.cloud_ratio[2]

(* Pixel content of a tile, by what the classifier reads from it: the       *)
(* channel means before colour correction and, after it, the fraction of   *)
(* bright unsaturated pixels, the HSV and RGB aggregates and the features  *)
(* of classify_tile.                                                       *)
ForestFeatures ==
    [ b |-> 60, g |-> 100, r |-> 70, edge_density |-> 150, texture_variance |-> 120,
      color_variance |-> 20, saturation |-> 80, brightness |-> 100 ]

RiverFeatures ==
    [ b |-> 120, g |-> 90, r |-> 90, edge_density |-> 150, texture_variance |-> 50,
      color_variance |-> 10, saturation |-> 40, brightness |-> 100 ]

WhiteFeatures ==
    [ b |-> 230, g |-> 230, r |-> 230, edge_density |-> 50, texture_variance |-> 50,
      color_variance |-> 10, saturation |-> 20, brightness |-> 160 ]

ForestTile ==
    [ means |-> <<60, 100, 70>>, cloud_ratio |-> <<0, 1>>, v_mean |-> 100,
      s_mean |-> 80, rgb_std |-> 17, f |-> ForestFeatures ]

RiverTile ==
    [ means |-> <<120, 90, 90>>, cloud_ratio |-> <<1, 10>>, v_mean |-> 100,
      s_mean |-> 40, rgb_std |-> 14, f |-> RiverFeatures ]

\* every pixel bright and unsaturated
CloudTile ==
    [ means |-> <<230, 230, 230>>, cloud_ratio |-> <<1, 1>>, v_mean |-> 230,
      s_mean |-> 5, rgb_std |-> 0, f |-> WhiteFeatures ]

\* exactly 70% of the pixels bright and unsaturated
HazyTile ==
    [ means |-> <<200, 200, 200>>, cloud_ratio |-> <<7, 10>>, v_mean |-> 190,
      s_mean |-> 35, rgb_std |-> 0, f |-> WhiteFeatures ]

\* a tile of black pixels only, as cut from the padding
BlackTile ==
    [ means |-> <<0, 0, 0>>, cloud_ratio |-> <<0, 1>>, v_mean |-> 0,
      s_mean |-> 0, rgb_std |-> 0, f |-> NoFeatures ]

\* half the pixels bright and unsaturated, bright and flat on average
BrightFlatTile ==
    [ means |-> <<215, 215, 210>>, cloud_ratio |-> <<1, 2>>, v_mean |-> 210,
      s_mean |-> 20, rgb_std |-> 2, f |-> WhiteFeatures ]

TileContents == { ForestTile, RiverTile, CloudTile }

LoopContents == TileContents \cup { HazyTile, BlackTile }

\* variant: the cloud check never filters a tile
IsFiltered_Never(tile, filter_clouds) == FALSE

\* classify_tiles lines 251-258: the tile is tagged 'Cloud' and skipped
IsFiltered(tile, filter_clouds) ==
    filter_clouds /\ detect_cloud(tile, CloudThreshold)

\* classify_tiles lines 251-262: the label appended for a tile
TileLabelOf(tile, filter_clouds) ==
    IF IsFiltered(tile, filter_clouds) THEN "Cloud" ELSE classify_tile(tile.f)

\* classify_tiles (lines 227-267): the list returned
classify_tiles(tls, filter_clouds) ==
    [ i \in 1..Len(tls) |-> TileLabelOf(tls[i], filter_clouds) ]

\* variant: the callback is skipped for a tile tagged 'Cloud'
CallbackDue_NotForCloud(label, callback) == callback /\ label # "Cloud"

\* classify_tiles lines 256-257 and 264-265: the callback is called after a
\* tile of either kind when one was given
CallbackDue(label, callback) == callback

MaxTiles == 2

CtIdle ==
    /\ ct_tiles = <<>> /\ ct_filter_clouds = TRUE /\ ct_callback = FALSE
    /\ ct_i = 0 /\ ct_classifications = <<>> /\ ct_progress = <<>>
    /\ ct_classified = <<>> /\ ct_stats = NoStats /\ ct_passes = <<>>
    /\ ct_pc = "idle" /\ ct_caller = "none"

\* classify_tiles lines 238-241: the locals on entry to the loop
EnterLoop(tls) ==
    /\ ct_i' = 0
    /\ ct_classifications' = <<>>
    /\ ct_progress' = <<>>
    /\ ct_classified' = <<>>
    /\ ct_stats' = NoStats
    /\ ct_pc' = IF tls = <<>> THEN "returned" ELSE "examine"

\* the for statement moves to the next tile or the loop ends
NextTile ==
    /\ ct_i' = ct_i + 1
    /\ ct_pc' = IF ct_i + 1 < Len(ct_tiles) THEN "examine" ELSE "returned"

(* classify_tiles_lulc (app.py lines 262-289) up to the call of            *)
(* classify_tiles on app.tiles, with the classifier it constructs and the  *)
(* progress callback it defines.                                           *)
BeginClassifyTilesLulc ==
    /\ ct_pc = "idle"
    /\ tiles # <<>>
    /\ \E contents \in [ 1..Len(tiles) -> TileContents ] :
          /\ ct_tiles' = contents
          /\ EnterLoop(contents)
    /\ ct_passes' = [ k \in 1..Len(tiles) |->
                        IF tiles_image = "preprocessed" THEN 1 ELSE 0 ]
    /\ ct_filter_clouds' = TRUE
    /\ ct_callback' = TRUE
    /\ ct_caller' = "app"
    /\ mask_array' = <<>>
    /\ app_message' = "classifying"
    /\ UNCHANGED <<images, current_image_index, tiles, tile_size, tile_size_var,
                   current_padded_image, tiles_image, tile_classifications, category_values,
                   category_value_vars>>
    /\ UNCHANGED <<selVars, clsVars, accVars, batchVars>>

(* classify_tiles called on a list of tiles by any other caller.           *)
CallClassifyTiles ==
    /\ ct_pc = "idle"
    /\ \E n \in 0..MaxTiles : \E tls \in [ 1..n -> LoopContents ] :
          /\ ct_tiles' = tls
          /\ ct_passes' = [ k \in 1..n |-> 0 ]
          /\ EnterLoop(tls)
    /\ \E fc \in BOOLEAN : ct_filter_clouds' = fc
    /\ \E cb \in BOOLEAN : ct_callback' = cb
    /\ ct_caller' = "direct"
    /\ UNCHANGED <<clsVars, appVars, accVars, batchVars>>

(* One pass of the loop body up to the append (lines 241-262): colour      *)
(* correction, cloud check, classification.                                *)
ExamineTile ==
    /\ ct_pc = "examine"
    /\ LET tile  == ct_tiles[ct_i + 1]
           label == TileLabelOf(tile, ct_filter_clouds)
       IN  /\ ct_stats' = analyze_image_bands(tile.means)
           /\ ct_passes' = [ ct_passes EXCEPT ![ct_i + 1] = @ + 1 ]
           /\ ct_classifications' = Append(ct_classifications, label)
           /\ ct_classified' = IF IsFiltered(tile, ct_filter_clouds)
                               THEN ct_classified
                               ELSE Append(ct_classified, ct_i)
           /\ IF CallbackDue(label, ct_callback)
              THEN ct_pc' = "callback" /\ ct_i' = ct_i
              ELSE NextTile
    /\ UNCHANGED <<ct_tiles, ct_filter_clouds, ct_callback, ct_progress, ct_caller>>
    /\ UNCHANGED <<clsVars, appVars, accVars, batchVars>>

(* progress_callback(i + 1, total) (lines 256-257, 264-265); the callback  *)
(* of classify_tiles_lulc (app.py lines 286-288) only updates the status   *)
(* line.  Each call is logged with the number of labels appended so far.   *)
ProgressCallback ==
    /\ ct_pc = "callback"
    /\ ct_progress' = Append(ct_progress,
                             [ current |-> ct_i + 1, total |-> Len(ct_tiles),
                               labels |-> Len(ct_classifications) ])
    /\ NextTile
    /\ UNCHANGED <<ct_tiles, ct_filter_clouds, ct_callback, ct_classifications,
                   ct_classified, ct_stats, ct_passes, ct_caller>>
    /\ UNCHANGED <<clsVars, appVars, accVars, batchVars>>

(* classify_tiles returns (line 267) and its locals are gone;              *)
(* classify_tiles_lulc stores the list and updates the legend counts       *)
(* (app.py lines 289-308).                                                 *)
ReturnClassifications ==
    /\ ct_pc = "returned"
    /\ IF ct_caller = "app"
       THEN /\ tile_classifications' = ct_classifications
            /\ category_counts' = CountsOf(ct_classifications)
            /\ app_message' = "classified"
            /\ UNCHANGED <<images, current_image_index, tiles, tile_size, tile_size_var,
                           current_padded_image, tiles_image, selected_tiles, image_tile_selections,
                           guiVars, preVars, category_values, category_value_vars,
                           mask_array>>
       ELSE UNCHANGED appVars
    /\ ct_tiles' = <<>> /\ ct_filter_clouds' = TRUE /\ ct_callback' = FALSE
    /\ ct_i' = 0 /\ ct_classifications' = <<>> /\ ct_progress' = <<>>
    /\ ct_classified' = <<>> /\ ct_stats' = NoStats /\ ct_passes' = <<>>
    /\ ct_pc' = "idle" /\ ct_caller' = "none"
    /\ UNCHANGED <<clsVars, accVars, batchVars>>

(* classify_tiles_lulc (app.py lines 262-308) as one step: every tile gets *)
(* the label classify_tiles computes from its content.                     *)
ClassifyTilesLulc ==
    /\ tiles # <<>>
    /\ \E contents \in [ 1..Len(tiles) -> TileContents ] :
          LET labels == classify_tiles(contents, TRUE)
          IN  /\ tile_classifications' = labels
              /\ category_counts' = CountsOf(labels)
    /\ mask_array' = <<>>
    /\ app_message' = "classified"
    /\ UNCHANGED <<images, current_image_index, tiles, tile_size, tile_size_var,
                   current_padded_image, tiles_image, selected_tiles, image_tile_selections,
                   guiVars, preVars, category_values, category_value_vars>>
    /\ UNCHANGED <<clsVars, accVars, ctVars, batchVars>>

(* _change_tile_category (canvas_handler.py lines 302-320) from the        *)
(* context menu of the tile under the pointer, which on_right_click        *)
(* (lines 254-267) shows when no tile is selected for batch assignment.    *)
ChangeTileCategory ==
    /\ tile_classifications # <<>>
    /\ selected_tiles_for_category = {}
    /\ \E tile_index \in 0..(Len(tiles) - 1), new_category \in TileLabels :
          /\ tile_index < Len(tile_classifications)
          /\ tile_classifications' =
                 [ tile_classifications EXCEPT ![tile_index + 1] = new_category ]
          /\ category_counts' = CountsOf(
                 [ tile_classifications EXCEPT ![tile_index + 1] = new_category ])
    /\ mask_array' = <<>>
    /\ app_message' = "none"
    /\ UNCHANGED <<images, current_image_index, tiles, tile_size, tile_size_var,
                   current_padded_image, tiles_image, selected_tiles, image_tile_selections,
                   guiVars, preVars, category_values, category_value_vars>>
    /\ UNCHANGED <<clsVars, accVars, ctVars, batchVars>>

(* The user types into the mask value entry of a category.                 *)
EditMaskValueEntry ==
    /\ \E c \in EditedCategories, t \in MaskValueTexts :
          category_value_vars' = [ category_value_vars EXCEPT ![c] = t ]
    /\ mask_array' = <<>>
    /\ app_message' = "none"
    /\ UNCHANGED <<images, current_image_index, tiles, tile_size, tile_size_var,
                   current_padded_image, tiles_image, tile_classifications, category_values>>
    /\ UNCHANGED <<selVars, clsVars, accVars, ctVars, batchVars>>

\* update_category_value (app.py lines 367-373) applied to one category
UpdatedValue(values, cat, text) ==
    IF int(text).ok THEN [ values EXCEPT ![cat] = int(text).val ] ELSE values

(* update_category_value as the <FocusOut>/<Return> handler of an entry.   *)
UpdateCategoryValue ==
    /\ \E c \in EditedCategories :
          category_values' = UpdatedValue(category_values, c, category_value_vars[c])
    /\ mask_array' = <<>>
    /\ app_message' = "none"
    /\ UNCHANGED <<images, current_image_index, tiles, tile_size, tile_size_var,
                   current_padded_image, tiles_image, tile_classifications, category_value_vars>>
    /\ UNCHANGED <<selVars, clsVars, accVars, ctVars, batchVars>>

\* save_mask_only lines 392-393: every category synced from its entry
SyncedValues ==
    [ c \in CategorySet |->
        IF int(category_value_vars[c]).ok
        THEN int(category_value_vars[c]).val
        ELSE category_values[c] ]

\* save_mask_only line 427: the tiles that are painted
IsPainted(label) == label # "" /\ label # "Cloud"

Min(a, b) == IF a < b THEN a ELSE b

\* save_mask_only lines 432-435: the rectangle painted for a tile
PaintedRect(tile, ts, width, height) ==
    [ x1 |-> tile.x, y1 |-> tile.y,
      x2 |-> Min(tile.x + ts, width),
      y2 |-> Min(tile.y + ts, height) ]

\* a Python int stored into a uint8 array, when it fits
FitsUint8(v) == 0 <= v /\ v <= 255

(* save_mask_only lines 420-437: the array after the first n tiles have    *)
(* been visited; rows are y, columns x, both from 0 in the code.           *)
RECURSIVE MaskAfter(_, _, _, _, _, _, _)
MaskAfter(n, tls, labels, values, ts, width, height) ==
    IF n = 0
    THEN [ y \in 1..height |-> [ x \in 1..width |-> DefaultValue ] ]
    ELSE LET before == MaskAfter(n - 1, tls, labels, values, ts, width, height)
         IN  IF ~IsPainted(labels[n]) THEN before
             ELSE LET rc  == PaintedRect(tls[n], ts, width, height)
                      val == values[labels[n]] % 256
                  IN  [ y \in 1..height |-> [ x \in 1..width |->
                          IF /\ rc.y1 <= y - 1 /\ y - 1 < rc.y2
                             /\ rc.x1 <= x - 1 /\ x - 1 < rc.x2
                          THEN val ELSE before[y][x] ] ]

\* the values written by the loop of lines 422-437
PaintedValues(tls, labels, values) ==
    { values[labels[i]] : i \in { k \in 1..Min(Len(tls), Len(labels)) : IsPainted(labels[k]) } }

(* save_mask_only (app.py lines 375-455), the save dialog answered with a  *)
(* path.  A value outside 0..255 stored into the uint8 array wraps modulo  *)
(* 256 or raises OverflowError, depending on the NumPy release.            *)
SaveMaskOnly ==
    /\ tile_classifications # <<>>
    /\ current_padded_image # NoImage
    /\ category_values' = SyncedValues
    /\ IF images = <<>>
       THEN \* line 396: IndexError on self.images[self.current_image_index]
            /\ mask_array' = <<>>
            /\ app_message' = "exception"
       ELSE IF \A v \in PaintedValues(tiles, tile_classifications, SyncedValues) : FitsUint8(v)
            THEN /\ mask_array' = MaskAfter(Min(Len(tiles), Len(tile_classifications)),
                                            tiles, tile_classifications, SyncedValues,
                                            tile_size, current_padded_image.width,
                                            current_padded_image.height)
                 /\ app_message' = "mask_saved"
            ELSE \/ /\ mask_array' = MaskAfter(Min(Len(tiles), Len(tile_classifications)),
                                               tiles, tile_classifications, SyncedValues,
                                               tile_size, current_padded_image.width,
                                               current_padded_image.height)
                    /\ app_message' = "mask_saved"
                 \/ /\ mask_array' = <<>>
                    /\ app_message' = "exception"
    /\ UNCHANGED <<images, current_image_index, tiles, tile_size, tile_size_var,
                   current_padded_image, tiles_image, tile_classifications, category_value_vars>>
    /\ UNCHANGED <<selVars, clsVars, accVars, ctVars, batchVars>>

-----------------------------------------------------------------------------
(* TILE SELECTION, NAVIGATION AND EXPORT (canvas_handler.py,               *)
(* image_handler.py, tile_manager.py).                                     *)

\* _get_tile_at_position returns None
NoTile == -1

\* _get_tile_at_position (canvas_handler.py lines 239-252) at zoom level 1:
\* the first tile whose square of the current tile size holds the point
get_tile_at_position(tls, ts, x, y) ==
    LET hits == { i \in 0..(Len(tls) - 1) :
                    /\ tls[i + 1].x <= x /\ x <= tls[i + 1].x + ts
                    /\ tls[i + 1].y <= y /\ y <= tls[i + 1].y + ts }
    IN  IF hits = {} THEN NoTile
        ELSE CHOOSE i \in hits : \A j \in hits : i <= j

\* canvas points the user clicks: the corner of a tile or the pixel next to it
ClickPoints ==
    { <<tiles[k].x + d[1], tiles[k].y + d[2]>> :
        k \in 1..Len(tiles), d \in { <<0, 0>>, <<1, 1>> } }

MaxSelected == 1

\* a click on a member removes it, on another tile adds it
Toggled(S, i) == IF i \in S THEN S \ {i} ELSE S \cup {i}

(* on_canvas_click (canvas_handler.py lines 159-194).  The 'selected' flag *)
(* of a tile repeats membership in selected_tiles and is not kept apart.   *)
OnCanvasClick ==
    /\ \E p \in ClickPoints :
          LET tile_index == get_tile_at_position(tiles, tile_size, p[1], p[2])
          IN  IF tile_index = NoTile
              THEN UNCHANGED <<selected_tiles, selected_tiles_for_category>>
              ELSE IF tile_classifications # <<>>
                   THEN /\ selected_tiles_for_category' =
                               Toggled(selected_tiles_for_category, tile_index)
                        /\ Cardinality(selected_tiles_for_category') <= MaxSelected
                        /\ UNCHANGED selected_tiles
                   ELSE /\ selected_tiles' = Toggled(selected_tiles, tile_index)
                        /\ Cardinality(selected_tiles') <= MaxSelected
                        /\ UNCHANGED selected_tiles_for_category
    /\ mask_array' = <<>>
    /\ app_message' = "none"
    /\ UNCHANGED <<images, current_image_index, tiles, tile_size, tile_size_var,
                   current_padded_image, tiles_image, tile_classifications, image_tile_selections,
                   category_counts, image_listbox, exported_tiles, preVars,
                   category_values, category_value_vars>>
    /\ UNCHANGED <<clsVars, accVars, ctVars, batchVars>>

\* the selections dict after the current image's selection has been saved
SavedSelections ==
    IF images # <<>> /\ current_image_index < Len(images)
    THEN DictSet(image_tile_selections, images[current_image_index + 1].path,
                 selected_tiles)
    ELSE image_tile_selections

(* The common part of prev_image, next_image and on_image_select with      *)
(* images loaded: the selection is saved, the index moves, the             *)
(* classifications are cleared and apply_tile_size runs.                   *)
SwitchImageTo(new_index) ==
    /\ image_tile_selections' = SavedSelections
    /\ current_image_index' = new_index
    /\ category_counts' = [ c \in CategorySet |-> 0 ]
    /\ ClearPreprocessed
    /\ ApplyTileSizeTo(images, new_index, SavedSelections)
    /\ mask_array' = <<>>
    /\ UNCHANGED <<images, guiVars, category_values, category_value_vars>>
    /\ UNCHANGED <<clsVars, accVars, ctVars, batchVars>>

\* a handler that returns at once because no image is loaded
ReturnsAtOnce ==
    /\ mask_array' = <<>>
    /\ app_message' = "none"
    /\ UNCHANGED <<images, current_image_index, tiles, tile_size, tile_size_var,
                   current_padded_image, tiles_image, tile_classifications, category_values,
                   category_value_vars>>
    /\ UNCHANGED <<selVars, clsVars, accVars, ctVars, batchVars>>

(* prev_image (image_handler.py lines 105-121).                            *)
PrevImage ==
    IF images = <<>> THEN ReturnsAtOnce
    ELSE SwitchImageTo((current_image_index - 1) % Len(images))

(* next_image (image_handler.py lines 123-139).                            *)
NextImage ==
    IF images = <<>> THEN ReturnsAtOnce
    ELSE SwitchImageTo((current_image_index + 1) % Len(images))

(* on_image_select (image_handler.py lines 90-103) for a listbox entry.    *)
OnImageSelect ==
    \E selection \in 0..(image_listbox - 1) :
        IF images # <<>>
        THEN SwitchImageTo(selection)
        ELSE \* apply_tile_size returns at once
             /\ current_image_index' = selection
             /\ tile_classifications' = <<>>
             /\ category_counts' = [ c \in CategorySet |-> 0 ]
             /\ ClearPreprocessed
             /\ mask_array' = <<>>
             /\ app_message' = "none"
             /\ UNCHANGED <<images, tiles, tile_size, tile_size_var,
                            current_padded_image, tiles_image, selected_tiles,
                            image_tile_selections, guiVars, category_values,
                            category_value_vars>>
             /\ UNCHANGED <<clsVars, accVars, ctVars, batchVars>>

\* export_tiles lines 121-158: the files written for the saved selections,
\* each image tiled with the current tile size
ExportedFor(imgs, sels, ts) ==
    UNION { { <<imgs[n].path, TilesFor(imgs[n], ts)[i + 1].row,
                TilesFor(imgs[n], ts)[i + 1].col>> :
                i \in { j \in DictGet(sels, imgs[n].path) :
                          j < Len(TilesFor(imgs[n], ts)) } } :
            n \in 1..Len(imgs) }

(* export_tiles (tile_manager.py lines 104-164); the folder dialog is      *)
(* answered or cancelled.                                                  *)
ExportTiles ==
    IF images = <<>> THEN ReturnsAtOnce
    ELSE /\ image_tile_selections' = SavedSelections
         /\ \E folder \in BOOLEAN :
               /\ exported_tiles' = IF folder
                                    THEN ExportedFor(images, SavedSelections, tile_size)
                                    ELSE exported_tiles
               /\ app_message' = IF folder THEN "exported" ELSE "none"
         /\ mask_array' = <<>>
         /\ UNCHANGED <<images, current_image_index, tiles, tile_size, tile_size_var,
                        current_padded_image, tiles_image, tile_classifications, selected_tiles,
                        category_counts, selected_tiles_for_category, image_listbox,
                        preVars, category_values, category_value_vars>>
         /\ UNCHANGED <<clsVars, accVars, ctVars, batchVars>>

\* the image files offered while tiles are selected
SelectionFiles == { f \in ImageFiles : f.width = f.height }

UploadSelectionImages == UploadImagesFrom(SelectionFiles)

(* upload_folder (image_handler.py lines 52-74): as upload_images, on the  *)
(* image files of the folder.                                              *)
UploadFolder == UploadImagesFrom(SelectionFiles)

(* on_drop (image_handler.py lines 173-215) for dropped files; the         *)
(* classifications are cleared only when an image has loaded.              *)
OnDrop ==
    \E sel \in FileSelections(SelectionFiles) :
        /\ images' = Loaded(sel)
        /\ image_tile_selections' = EmptyDict
        /\ IF Loaded(sel) # <<>>
           THEN /\ current_image_index' = 0
                /\ image_listbox' = Len(Loaded(sel))
                /\ category_counts' = [ c \in CategorySet |-> 0 ]
                /\ ClearPreprocessed
                /\ ApplyTileSizeTo(Loaded(sel), 0, EmptyDict)
           ELSE /\ app_message' = "load_failed"
                /\ UNCHANGED preVars
                /\ UNCHANGED <<current_image_index, tile_size, tile_size_var, tiles,
                               current_padded_image, tiles_image, tile_classifications,
                               selected_tiles, image_listbox, category_counts>>
        /\ mask_array' = <<>>
        /\ UNCHANGED <<category_values, category_value_vars,
                       selected_tiles_for_category, exported_tiles>>
        /\ UNCHANGED <<clsVars, accVars, ctVars, batchVars>>

\* tile size texts for the selection of tiles: grids of 1, 2 or 3 columns
SelectionTexts == { << "1" >>, << "2" >>, << "0" >> }

EditSelectionSizeEntry == EditTileSizeEntryFrom(SelectionTexts)

-----------------------------------------------------------------------------
(* CLOUD DETECTOR: LULCClassifier.detect_cloud on the pixels of a tile.    *)

MaxPixels == 4

\* HSV value and saturation of a pixel, on and next to the two limits
PixelKinds ==
    { [ v |-> 230, s |-> 10 ], [ v |-> 201, s |-> 39 ], [ v |-> 200, s |-> 10 ],
      [ v |-> 230, s |-> 40 ], [ v |-> 50, s |-> 100 ] }

\* values of cloud_threshold, 0.7 being the one the app passes
Thresholds == { <<0, 1>>, <<1, 2>>, <<7, 10>>, <<3, 4>>, <<1, 1>> }

\* detect_cloud line 95: bright_pixels = (v > 200) & (s < 40)
bright_pixels(pixels) ==
    { i \in 1..Len(pixels) : pixels[i].v > 200 /\ pixels[i].s < 40 }

\* detect_cloud line 96: np.sum(bright_pixels) / (shape[0] * shape[1])
cloud_pixel_ratio(pixels) == << Cardinality(bright_pixels(pixels)), Len(pixels) >>

(* A tile of 1..MaxPixels pixels reaches a classifier constructed with     *)
(* some cloud_threshold.                                                   *)
TakeTile ==
    /\ cloud_result = NoCloudResult
    /\ tile_array = <<>>
    /\ \E n \in 1..MaxPixels : \E pixels \in [ 1..n -> PixelKinds ] :
          tile_array' = pixels
    /\ \E t \in Thresholds : cloud_threshold' = t
    /\ UNCHANGED <<features, category, cstage, cloud_result, eqVars>>
    /\ UNCHANGED <<appVars, accVars, ctVars, batchVars>>

(* detect_cloud (lines 90-99) returns is_cloud, cloud_pixel_ratio.         *)
DetectCloud ==
    /\ tile_array # <<>>
    /\ cloud_result = NoCloudResult
    /\ cloud_result' =
          [ is_cloud |-> detect_cloud([ cloud_ratio |-> cloud_pixel_ratio(tile_array) ],
                                      cloud_threshold),
            cloud_pixel_ratio |-> cloud_pixel_ratio(tile_array) ]
    /\ UNCHANGED <<features, category, cstage, tile_array, cloud_threshold, eqVars>>
    /\ UNCHANGED <<appVars, accVars, ctVars, batchVars>>

-----------------------------------------------------------------------------
(* THE TWO classify_tile IMPLEMENTATIONS on one tile: LULCClassifier       *)
(* (lulc_classifier.py) and LULCTileClassifier (lulc_dataset.py).  Their   *)
(* code differs in one expression, the divisor of edge_density.            *)

\* tile.shape before a tile is taken
NoShape == <<0, 0>>

\* np.sum(edges > 0) / (n * n) in thousandths; exact for n = 5 and n = 10
EdgeDensity(edges, n) == (edges * 1000) \div (n * n)

\* shapes <<rows, cols>> of the tile and values of self.tile_size
TileShapes == { <<5, 5>>, <<10, 10>>, <<10, 5>> }
TileSides == { 5, 10 }
EdgeCounts == { 2, 3, 5, 8, 10, 11, 12, 15, 20, 25 }

\* lulc_classifier.py lines 122-123: tile_size = tile_array.shape[0]
selector_edge_density(edges, tile_shp) == EdgeDensity(edges, tile_shp[1])

\* lulc_dataset.py line 270: the divisor is self.tile_size squared
dataset_edge_density(edges, side) == EdgeDensity(edges, side)

\* variant: the batch classifier tests Highway before Residential
dataset_classify_tile_HighwayFirst(f, edges, side) ==
    classify_tile_HighwayFirst(
        [ f EXCEPT !.edge_density = dataset_edge_density(edges, side) ])

\* LULCTileClassifier.classify_tile (lulc_dataset.py lines 246-388): the
\* cascade and the scoring of lines 304-388 are those of classify_tile
dataset_classify_tile(f, edges, side) ==
    classify_tile([ f EXCEPT !.edge_density = dataset_edge_density(edges, side) ])

(* A tile is cut and its features are computed as LULCClassifier does      *)
(* (lulc_classifier.py lines 111-151); the batch classifier that is to see *)
(* the same tile has some tile_size.                                       *)
MeasureTile ==
    /\ cstage = "idle"
    /\ \E shp \in TileShapes, n \in EdgeCounts, c \in MeanColors,
          t \in {50, 120}, cv \in {10, 23, 26, 29}, s \in {20, 32, 40, 80},
          v \in {100, 125, 160} :
          /\ tile_shape' = shp
          /\ tile_edges' = n
          /\ features' = [ b |-> c[1], g |-> c[2], r |-> c[3],
                           edge_density |-> selector_edge_density(n, shp),
                           texture_variance |-> t, color_variance |-> cv,
                           saturation |-> s, brightness |-> v ]
    /\ \E ts \in TileSides : dataset_tile_size' = ts
    /\ cstage' = "extracted"
    /\ UNCHANGED <<category, dcVars, dataset_category>>
    /\ UNCHANGED <<appVars, accVars, ctVars, batchVars>>

(* LULCTileClassifier.classify_tile on the tile LULCClassifier has         *)
(* classified.                                                             *)
DatasetClassifyTile ==
    /\ cstage = "classified"
    /\ tile_shape # NoShape
    /\ dataset_category = NoReturn
    /\ dataset_category' = dataset_classify_tile(features, tile_edges, dataset_tile_size)
    /\ UNCHANGED <<features, category, cstage, dcVars, tile_shape, tile_edges,
                   dataset_tile_size>>
    /\ UNCHANGED <<appVars, accVars, ctVars, batchVars>>

-----------------------------------------------------------------------------
(* BATCH ASSIGNMENT AND PREPROCESSING (canvas_handler.py, app.py).         *)

\* variant: the text of the menu entry is stored for 'Cloud'
BatchAssigned_MenuText(labels, selected, new_category) ==
    [ i \in 1..Len(labels) |->
        IF (i - 1) \in selected
        THEN IF new_category = "Cloud" THEN "Mark all as Cloud" ELSE new_category
        ELSE labels[i] ]

\* _batch_assign_category lines 360-364: the labels after the loop
BatchAssigned(labels, selected, new_category) ==
    [ i \in 1..Len(labels) |->
        IF (i - 1) \in selected THEN new_category ELSE labels[i] ]

(* _batch_assign_category (canvas_handler.py lines 357-380) from the menu  *)
(* on_right_click shows when tiles are selected for batch assignment.      *)
BatchAssignCategory ==
    /\ tile_classifications # <<>>
    /\ selected_tiles_for_category # {}
    /\ \E new_category \in TileLabels :
          /\ tile_classifications' =
                 BatchAssigned(tile_classifications, selected_tiles_for_category,
                               new_category)
          /\ category_counts' = CountsOf(
                 BatchAssigned(tile_classifications, selected_tiles_for_category,
                               new_category))
    /\ selected_tiles_for_category' = {}
    /\ mask_array' = <<>>
    /\ app_message' = "none"
    /\ UNCHANGED <<images, current_image_index, tiles, tile_size, tile_size_var,
                   current_padded_image, tiles_image, selected_tiles,
                   image_tile_selections, image_listbox, exported_tiles, preVars,
                   category_values, category_value_vars>>
    /\ UNCHANGED <<clsVars, accVars, ctVars, batchVars>>

\* _apply_preprocessing (app.py lines 981-1006): the corrected copy kept
Preprocessed(imgs, idx, old) ==
    IF imgs = <<>> \/ idx >= Len(imgs) THEN old
    ELSE [ width |-> imgs[idx + 1].width, height |-> imgs[idx + 1].height ]

(* toggle_preprocessing (app.py lines 246-260), the command of the         *)
(* Preprocess checkbox, which has flipped preprocess_enabled.              *)
TogglePreprocessing ==
    /\ preprocess_enabled' = ~preprocess_enabled
    /\ LET kept == IF ~preprocess_enabled
                   THEN Preprocessed(images, current_image_index, preprocessed_image)
                   ELSE NoImage
       IN  /\ preprocessed_image' = kept
           /\ ApplyTileSizeWith(images, current_image_index, image_tile_selections,
                                ~preprocess_enabled /\ kept # NoImage)
    /\ mask_array' = <<>>
    /\ UNCHANGED <<images, current_image_index, category_values, category_value_vars,
                   image_tile_selections, category_counts, guiVars>>
    /\ UNCHANGED <<clsVars, accVars, ctVars, batchVars>>

-----------------------------------------------------------------------------
(* BATCH CLASSIFIER: LULCTileClassifier (lulc_dataset.py), constructed     *)
(* with the defaults apply_color_correction=True, cloud_threshold=0.7.     *)

\* Python's a // b for b # 0
floor_div(a, b) == IF b > 0 THEN a \div b ELSE (0 - a) \div (0 - b)

(* Image files of the source folder: path, whether cv2.imread decodes it,  *)
(* pixel size and channel means <<blue, green, red>>.                      *)
BatchImages ==
    { [ path |-> "s.tif", loads |-> TRUE, width |-> 4, height |-> 2,
        means |-> <<60, 100, 70>> ],
      [ path |-> "q.tif", loads |-> TRUE, width |-> 5, height |-> 4,
        means |-> <<120, 90, 90>> ],
      [ path |-> "z.tif", loads |-> TRUE, width |-> 3, height |-> 3,
        means |-> <<0, 0, 0>> ],
      [ path |-> "bad.tif", loads |-> FALSE, width |-> 0, height |-> 0,
        means |-> <<0, 0, 0>> ] }

NoBatchImage ==
    [ path |-> "", loads |-> FALSE, width |-> 0, height |-> 0, means |-> <<0, 0, 0>> ]

\* values of the tile_size argument of the constructor
BatchTileSizes == { -2, 0, 2, 3, 4 }

\* content the tiles of an image may have; an all-zero image has black tiles
ContentsOf(img) ==
    IF img.means = <<0, 0, 0>> THEN { BlackTile }
    ELSE { ForestTile, CloudTile, BrightFlatTile }

MaxExtracted == 5

\* detect_cloud of the batch classifier (lines 153-195): is_cloud
batch_detect_cloud(tile, threshold) ==
    \/ tile.cloud_ratio[1] * threshold[2] > threshold[1] * tile.cloud_ratio[2]
    \/ (tile.v_mean > 200 /\ tile.s_mean < 30 /\ tile.rgb_std < 15)

\* extract_tiles lines 229-242: number of passes of the nested range loops
BatchTileCount(img, ts) ==
    LET rows == floor_div(img.height, ts)
        cols == floor_div(img.width, ts)
    IN  IF rows > 0 /\ cols > 0 THEN rows * cols ELSE 0

\* extract_tiles lines 226-242: the tiles cut from a decoded image, tile k
\* with the content contents[k]
BatchTilesFor(img, ts, contents) ==
    LET cols == floor_div(img.width, ts)
    IN  [ k \in 1..BatchTileCount(img, ts) |->
            [ tile |-> contents[k], row |-> (k - 1) \div cols,
              col |-> (k - 1) % cols ] ]

\* the lists extract_tiles can return for a decoded image and tile_size # 0
ExtractedLists(img, ts) ==
    { BatchTilesFor(img, ts, c) : c \in [ 1..BatchTileCount(img, ts) -> ContentsOf(img) ] }

\* process_image lines 426-432: the tile is counted as cloud and skipped
BatchFiltered(t, filter_clouds) ==
    filter_clouds /\ batch_detect_cloud(t.tile, CloudThreshold)

\* process_image lines 425-437 with save_tile: tile_counts after the loop
CountsAfter(counts, tl, filter_clouds) ==
    [ c \in CategorySet |->
        counts[c] + Cardinality({ k \in 1..Len(tl) :
            ~BatchFiltered(tl[k], filter_clouds) /\ classify_tile(tl[k].tile.f) = c }) ]

\* process_image lines 425-432: cloud_filtered_count after the loop
CloudsAfter(count, tl, filter_clouds) ==
    count + Cardinality({ k \in 1..Len(tl) : BatchFiltered(tl[k], filter_clouds) })

BatchIdle ==
    /\ batch_tile_size = 256 /\ batch_filter_clouds = TRUE
    /\ tile_counts = [ c \in CategorySet |-> 0 ]
    /\ cloud_filtered_count = 0
    /\ batch_image = NoBatchImage /\ batch_stats = NoStats
    /\ batch_tiles = <<>> /\ batch_extracted = 0
    /\ batch_outcome = "none"

(* LULCTileClassifier.__init__ (lines 33-58).                              *)
BatchConstruct ==
    /\ batch_outcome = "none"
    /\ \E ts \in BatchTileSizes : batch_tile_size' = ts
    /\ \E fc \in BOOLEAN : batch_filter_clouds' = fc
    /\ tile_counts' = [ c \in CategorySet |-> 0 ]
    /\ cloud_filtered_count' = 0
    /\ batch_outcome' = "constructed"
    /\ UNCHANGED <<batch_image, batch_stats, batch_tiles, batch_extracted>>
    /\ UNCHANGED <<clsVars, appVars, accVars, ctVars>>

(* extract_tiles (lines 197-244) on an image file, as a relation on the    *)
(* fields it determines; tl is the list it returns.                        *)
ExtractTilesOf(img, tl) ==
    /\ batch_image' = img
    /\ IF ~img.loads
       THEN \* lines 208-211: warning printed, [] returned
            /\ tl = <<>>
            /\ batch_outcome' = "returned"
            /\ UNCHANGED batch_stats
       ELSE /\ batch_stats' = analyze_image_bands(img.means)
            /\ IF batch_tile_size = 0
               THEN \* line 229: height // 0
                    /\ tl = <<>>
                    /\ batch_outcome' = "ZeroDivisionError"
               ELSE /\ tl \in ExtractedLists(img, batch_tile_size)
                    /\ batch_outcome' = "returned"
    /\ batch_tiles' = tl
    /\ batch_extracted' = batch_extracted + Len(tl)

\* the lists ExtractTilesOf can bind tl to
CandidateLists(img) ==
    IF img.loads /\ batch_tile_size # 0
    THEN ExtractedLists(img, batch_tile_size) ELSE { <<>> }

(* extract_tiles called on one image file.                                 *)
ExtractTiles ==
    /\ batch_outcome # "none"
    /\ batch_extracted < MaxExtracted
    /\ \E img \in BatchImages : \E tl \in CandidateLists(img) : ExtractTilesOf(img, tl)
    /\ UNCHANGED <<batch_tile_size, batch_filter_clouds, tile_counts, cloud_filtered_count>>
    /\ UNCHANGED <<clsVars, appVars, accVars, ctVars>>

(* process_image (lines 408-439): extract_tiles, then every tile is either *)
(* counted as cloud or classified and saved.                               *)
ProcessImage ==
    /\ batch_outcome # "none"
    /\ batch_extracted < MaxExtracted
    /\ \E img \in BatchImages : \E tl \in CandidateLists(img) :
          /\ ExtractTilesOf(img, tl)
          /\ tile_counts' = CountsAfter(tile_counts, tl, batch_filter_clouds)
          /\ cloud_filtered_count' =
                 CloudsAfter(cloud_filtered_count, tl, batch_filter_clouds)
    /\ UNCHANGED <<batch_tile_size, batch_filter_clouds>>
    /\ UNCHANGED <<clsVars, appVars, accVars, ctVars>>

-----------------------------------------------------------------------------
(* Specification of the classifier: a tile's features are extracted, then   *)
(* classify_tile runs on them.                                             *)
ClsIdle ==
    /\ features = NoFeatures /\ category = NoReturn /\ cstage = "idle"
    /\ tile_array = <<>> /\ cloud_threshold = CloudThreshold
    /\ cloud_result = NoCloudResult
    /\ tile_shape = NoShape /\ tile_edges = 0 /\ dataset_tile_size = 256
    /\ dataset_category = NoReturn

InitClassifier == ClsIdle /\ AppInit /\ AccIdle /\ CtIdle /\ BatchIdle

(* classify_tile lines 111-151: the features of the tile are computed.      *)
ExtractFeatures ==
    /\ cstage = "idle"
    /\ \E c \in MeanColors, e \in EdgeValues, t \in TextureValues,
          cv \in ColorVarValues, s \in SatValues, v \in BrightValues :
          features' = [ b |-> c[1], g |-> c[2], r |-> c[3],
                        edge_density |-> e, texture_variance |-> t,
                        color_variance |-> cv, saturation |-> s, brightness |-> v ]
    /\ cstage' = "extracted"
    /\ UNCHANGED <<category, dcVars, eqVars>>
    /\ UNCHANGED <<appVars, accVars, ctVars, batchVars>>

(* classify_tile lines 153-225: the cascade runs on the features.           *)
ClassifyTile ==
    /\ cstage = "extracted"
    /\ category' = classify_tile(features)
    /\ cstage' = "classified"
    /\ UNCHANGED <<features, dcVars, eqVars>>
    /\ UNCHANGED <<appVars, accVars, ctVars, batchVars>>

NextClassifier == ExtractFeatures \/ ClassifyTile

SpecClassifier == InitClassifier /\ [][NextClassifier]_vars

(* Specification of the accuracy evaluator: one evaluation, from the file  *)
(* dialogs to the result window.                                           *)
InitAccuracy == ClsIdle /\ AppInit /\ AccIdle /\ CtIdle /\ BatchIdle

NextAccuracy == ComputeAccuracyMatrix \/ EditName \/ OnCompute \/ CancelDialog

SpecAccuracy == InitAccuracy /\ [][NextAccuracy]_vars

(* Specification of the tile selector: images are loaded and tiled, tiles  *)
(* are labelled and the mask is exported.                                  *)
Init == ClsIdle /\ AppInit /\ AccIdle /\ CtIdle /\ BatchIdle

Next ==
    \/ UploadImages
    \/ EditTileSizeEntry
    \/ ValidateTileSize
    \/ ApplyTileSize
    \/ ClassifyTilesLulc
    \/ ChangeTileCategory
    \/ EditMaskValueEntry
    \/ UpdateCategoryValue
    \/ SaveMaskOnly

Spec == Init /\ [][Next]_vars

(* The tile selector and the batch classifier are two programs: a run is  *)
(* a run of one of them.                                                   *)
BatchNotRun == batch_outcome = "none"

TileSelectorNotRun == AppInit /\ CtIdle

(* Specification of the tiling engines: in the tile selector one image of  *)
(* any small size and any small tile size; in the batch classifier         *)
(* extract_tiles on the images of the source folder.                       *)
NextTiling ==
    \/ (BatchNotRun /\ UploadTilingImage)
    \/ (BatchNotRun /\ EditTilingSizeEntry)
    \/ (BatchNotRun /\ ValidateTileSize)
    \/ (BatchNotRun /\ ApplyTileSize)
    \/ (TileSelectorNotRun /\ BatchConstruct)
    \/ (TileSelectorNotRun /\ ExtractTiles)

SpecTiling == Init /\ [][NextTiling]_vars

(* Specification of tile classification: classify_tiles step by step, as   *)
(* called by the tile selector on the tiles of the loaded image or by      *)
(* another caller, and process_image of the batch classifier.              *)
LoopIdle == ct_pc = "idle"

\* the image files whose tile lists stay short
SmallFiles == { f \in ImageFiles : f.width * f.height <= 8 }

UploadSmallImages == UploadImagesFrom(SmallFiles)

NextClassify ==
    \/ (BatchNotRun /\ LoopIdle /\ UploadSmallImages)
    \/ (BatchNotRun /\ LoopIdle /\ EditTileSizeEntry)
    \/ (BatchNotRun /\ LoopIdle /\ ApplyTileSize)
    \/ (BatchNotRun /\ LoopIdle /\ BeginClassifyTilesLulc)
    \/ (BatchNotRun /\ AppInit /\ CallClassifyTiles)
    \/ ExamineTile
    \/ ProgressCallback
    \/ ReturnClassifications
    \/ (TileSelectorNotRun /\ BatchConstruct)
    \/ (TileSelectorNotRun /\ ProcessImage)

SpecClassify == Init /\ [][NextClassify]_vars

(* Specification of tile selection: images are loaded and switched, tiles  *)
(* are selected on the canvas, the tile size is changed and the selected   *)
(* tiles are exported.                                                     *)
NextSelection ==
    \/ UploadSelectionImages
    \/ UploadFolder
    \/ OnDrop
    \/ EditSelectionSizeEntry
    \/ ValidateTileSize
    \/ ApplyTileSize
    \/ OnCanvasClick
    \/ PrevImage
    \/ NextImage
    \/ OnImageSelect
    \/ ExportTiles

SpecSelection == Init /\ [][NextSelection]_vars

(* Specification of tile labelling: the tiles of the loaded image are      *)
(* classified step by step and relabelled from the context menus, while    *)
(* tiles are selected, the tile size and the image change and              *)
(* preprocessing is toggled.  The progress callback of classify_tiles_lulc *)
(* calls root.update() (app.py line 288), which serves the pending events: *)
(* a handler runs between two statements or inside that call.              *)
EventsServed == ct_pc \in { "idle", "callback" }

\* tile sizes that cut a.png into two tiles or one
LabelTexts == { << "2" >>, << "4" >>, << "x" >> }

EditLabelSizeEntry == EditTileSizeEntryFrom(LabelTexts)

\* the user clicks the canvas once the tiles carry labels
ClickLabelledTile == tile_classifications # <<>> /\ OnCanvasClick

NextLabels ==
    \/ (EventsServed /\ UploadSmallImages)
    \/ (EventsServed /\ EditLabelSizeEntry)
    \/ (EventsServed /\ ApplyTileSize)
    \/ (EventsServed /\ TogglePreprocessing)
    \/ (EventsServed /\ NextImage)
    \/ (EventsServed /\ ClickLabelledTile)
    \/ (EventsServed /\ ChangeTileCategory)
    \/ (EventsServed /\ BatchAssignCategory)
    \/ BeginClassifyTilesLulc
    \/ ExamineTile
    \/ ProgressCallback
    \/ ReturnClassifications

SpecLabels == Init /\ [][NextLabels]_vars

(* Specification of the cloud detector: detect_cloud on one tile.          *)
NextCloud == TakeTile \/ DetectCloud

SpecCloud == InitClassifier /\ [][NextCloud]_vars

(* Specification of the two classifiers side by side: one tile is         *)
(* classified by LULCClassifier, then by LULCTileClassifier.               *)
NextEquivalence == MeasureTile \/ ClassifyTile \/ DatasetClassifyTile

SpecEquivalence == InitClassifier /\ [][NextEquivalence]_vars

-----------------------------------------------------------------------------
(* Rule k of the cascade, k = 1..8, for stating rule order.                 *)
Rule(k, f) ==
    CASE k = 1 -> WaterRule(f)
      [] k = 2 -> ResidentialRule(f)
      [] k = 3 -> HighwayRule(f)
      [] k = 4 -> ForestRule(f)
      [] k = 5 -> AnnualCropRule(f)
      [] k = 6 -> PermanentCropRule(f)
      [] k = 7 -> VegetationRule(f)
      [] k = 8 -> IndustrialRule(f)

RuleFires(k, f) == Rule(k, f) # NoReturn

NoRuleFires(f) == \A k \in 1..8 : ~RuleFires(k, f)

\* C1: classify_tile returns exactly one of the 10 categories of CATEGORIES
\* for every feature vector: never 'Cloud', never None.
C1_TotalClassification ==
    cstage = "classified" =>
        /\ category \in CategorySet
        /\ category # "Cloud"
        /\ category # NoReturn

\* C1 witness: a classified tile on which no cascade rule fired and the top
\* fallback score is shared (the end of the cascade is reached).
C1_Witness ==
    /\ cstage = "classified"
    /\ NoRuleFires(features)
    /\ \E k1, k2 \in ScoreKeySet :
          /\ k1 # k2
          /\ DefaultScores(features)[k1] = DefaultScores(features)[k2]
          /\ \A j \in ScoreKeySet : DefaultScores(features)[j] <= DefaultScores(features)[k1]
    /\ category \in CategorySet

\* C2: the first rule (in the order Water, Residential, Highway, Forest,
\* AnnualCrop, PermanentCrop, Pasture/Herbaceous, Industrial) whose full
\* condition holds decides the result, whichever later rules also hold.
C2_FirstRuleWins ==
    cstage = "classified" =>
        \A k \in 1..8 :
            (RuleFires(k, features) /\ \A j \in 1..(k-1) : ~RuleFires(j, features))
                => category = Rule(k, features)

\* C2 witness: Residential and Highway (adjacent rules 2 and 3) both hold,
\* Water does not, and the result is Residential.
C2_Witness ==
    /\ cstage = "classified"
    /\ ~RuleFires(1, features)
    /\ RuleFires(2, features)
    /\ RuleFires(3, features)
    /\ category = "Residential"

\* C3: when no cascade rule fires the result is a fallback category with the
\* highest score, and among categories sharing the top score it is the first
\* in the order Pasture, HerbaceousVegetation, Industrial, Forest, AnnualCrop.
C3_FallbackTieBreak ==
    (cstage = "classified" /\ NoRuleFires(features)) =>
        \E i \in 1..Len(ScoreKeys) :
            /\ category = ScoreKeys[i]
            /\ \A j \in 1..Len(ScoreKeys) :
                  DefaultScores(features)[ScoreKeys[j]] <= DefaultScores(features)[ScoreKeys[i]]
            /\ \A j \in 1..(i-1) :
                  DefaultScores(features)[ScoreKeys[j]] < DefaultScores(features)[ScoreKeys[i]]

\* C3 witness: no rule fired, Pasture and Forest share the top score 2, and
\* the result is Pasture.
C3_Witness ==
    /\ cstage = "classified"
    /\ NoRuleFires(features)
    /\ DefaultScores(features)["Pasture"] = 2
    /\ DefaultScores(features)["Forest"] = 2
    /\ \A j \in ScoreKeySet : DefaultScores(features)[j] <= 2
    /\ category = "Pasture"

-----------------------------------------------------------------------------
(* Claims about the accuracy evaluator (specification SpecAccuracy).        *)

Positions(a) == { <<y, x>> : y \in 1..Len(a), x \in 1..Len(a[1]) }

KnownSet == { known_values[i] : i \in 1..Len(known_values) }

ExampleGT   == << <<1, 1>>, <<2, 2>> >>
ExamplePred == << <<1, 2>>, <<2, 2>> >>

\* C7: entry [i][j] of the N x N matrix is the number of pixel positions
\* whose ground truth is known_values[i] and whose prediction is
\* known_values[j]; pixels with a value that is not included count nowhere,
\* so the matrix sums to the number of pixels with both values included; on
\* ground truth [[1,1],[2,2]] and prediction [[1,2],[2,2]] with 1 and 2
\* included it is [[1,1],[0,2]].
C7_ConfusionCounts ==
    acc_stage = "shown" =>
        /\ Len(confusion) = Len(known_values)
        /\ \A i \in 1..Len(known_values) :
              /\ Len(confusion[i]) = Len(known_values)
              /\ \A j \in 1..Len(known_values) :
                    confusion[i][j] =
                        Cardinality({ p \in Positions(gt_img) :
                            /\ gt_img[p[1]][p[2]] = known_values[i]
                            /\ pred_img[p[1]][p[2]] = known_values[j] })
        /\ MatrixSum(confusion) =
               Cardinality({ p \in Positions(gt_img) :
                   /\ gt_img[p[1]][p[2]] \in KnownSet
                   /\ pred_img[p[1]][p[2]] \in KnownSet })
        /\ (gt_img = ExampleGT /\ pred_img = ExamplePred /\ known_values = <<1, 2>>)
              => confusion = << <<1, 1>>, <<0, 2>> >>

\* C7 witness: the matrix of the example has been built under the mapping
\* {1: A, 2: B}.
C7_Witness ==
    /\ acc_stage = "shown"
    /\ gt_img = ExampleGT
    /\ pred_img = ExamplePred
    /\ known_values = <<1, 2>>
    /\ value_to_cat[1] = << "A" >>
    /\ value_to_cat[2] = << "B" >>
    /\ confusion = << <<1, 1>>, <<0, 2>> >>

InPercentRange(q) == q[2] > 0 /\ 0 <= q[1] /\ q[1] <= 100 * q[2]

\* q = 100 * n / d  (q = 0 when d = 0), without division
IsPercentOf(q, n, d) ==
    IF d > 0 THEN q[1] * d = 100 * n * q[2] ELSE q[1] = 0

\* f = 2pr / (p + r)  (f = 0 when p + r = 0), without division
IsF1Of(f, p, r) ==
    IF p[1] > 0 \/ r[1] > 0
    THEN f[1] * (p[1] * r[2] + r[1] * p[2]) = 2 * p[1] * r[1] * f[2]
    ELSE f[1] = 0

MasksLoaded == pred_img # <<>> /\ gt_img # <<>>

DimensionsDiffer ==
    /\ MasksLoaded
    /\ (Len(pred_img) # Len(gt_img) \/ Len(pred_img[1]) # Len(gt_img[1]))

\* C9: when the two masks differ in width or height the evaluation ends with
\* the dimension-mismatch error: the mapping dialog is not opened, no matrix
\* or metric is built, and the application state is left as it was.
C9_DimensionMismatch ==
    [][ DimensionsDiffer' =>
            /\ acc_message' = "dimension_mismatch"
            /\ acc_stage' = "closed"
            /\ all_values' = <<>>
            /\ name_vars' = <<>>
            /\ known_values' = <<>>
            /\ confusion' = <<>>
            /\ per_class' = <<>>
            /\ UNCHANGED appVars ]_vars

\* C9 witness: masks of equal height and different width were selected and
\* the evaluation has ended with the error.
C9_Witness ==
    /\ MasksLoaded
    /\ Len(pred_img) = Len(gt_img)
    /\ Len(pred_img[1]) # Len(gt_img[1])
    /\ acc_message = "dimension_mismatch"
    /\ acc_stage = "closed"

(* Entry texts that do not name a class: blank, whitespace, and 'ignore'   *)
(* in any letter case, with or without surrounding blanks.                 *)
IsIgnoreWord(t) ==
    /\ Len(t) = 6
    /\ t[1] \in {"i", "I"} /\ t[2] \in {"g", "G"} /\ t[3] \in {"n", "N"}
    /\ t[4] \in {"o", "O"} /\ t[5] \in {"r", "R"} /\ t[6] \in {"e", "E"}

NamesNoClass(t) ==
    LET core == SelectSeq(t, LAMBDA c : c # " ")
    IN  \/ core = <<>>
        \/ (IsIgnoreWord(core)
            /\ \E i \in 1..Len(t) : SubSeq(t, i, i + 5) = core)

MappedValues == { v \in DOMAIN name_vars : ~NamesNoClass(name_vars[v]) }

\* C10: with fewer than 2 pixel values mapped to a class name (blank and
\* 'ignore' entries, in any letter case, not counted) no matrix is ever
\* built: _compute_and_show_matrix runs only with at least 2 known values,
\* all of them mapped.
C10_AtLeastTwoClasses ==
    /\ (confusion # <<>> \/ per_class # <<>> \/ acc_stage = "shown")
          => /\ Cardinality(MappedValues) >= 2
             /\ Len(known_values) >= 2
             /\ KnownSet = MappedValues
    /\ (acc_stage = "dialog" /\ Cardinality(MappedValues) < 2)
          => /\ confusion = <<>>
             /\ known_values = <<>>

\* C10 witness: Compute was pressed with one value named and another marked
\* 'ignore' in capitals; the warning is up and no matrix exists.
C10_Witness ==
    /\ acc_stage = "dialog"
    /\ acc_message = "need_two_classes"
    /\ Cardinality(DOMAIN name_vars) >= 2
    /\ Cardinality(MappedValues) = 1
    /\ \E v \in DOMAIN name_vars : name_vars[v] = << " ", "I", "G", "n", "o", "r", "e", " " >>
    /\ confusion = <<>>

-----------------------------------------------------------------------------
(* Claims about the tiling engine (SpecTiling) and the mask exporter       *)
(* (Spec).                                                                 *)

JustTiled == app_message \in { "tiled", "tiled_after_tile_size_error" }

\* the least n with n * t >= len
LeastCover(len, t) == CHOOSE n \in 1..len : n * t >= len /\ (n - 1) * t < len

\* pixel (x, y) lies in the footprint of the tile
Covers(tile, x, y) ==
    /\ tile.x <= x /\ x < tile.x + tile.tile_img.width
    /\ tile.y <= y /\ y < tile.y + tile.tile_img.height

\* C4: for an image W x H and tile size T > 0, apply_tile_size yields exactly
\* ceil(W/T) * ceil(H/T) tiles in row-major order, tile i with row = i div
\* ceil(W/T), col = i mod ceil(W/T), offset (col*T, row*T) and size T x T;
\* every pixel of the padded canvas ceil(W/T)*T x ceil(H/T)*T, so every pixel
\* of the image, lies in exactly one tile.
C4_TilingPartition ==
    (JustTiled /\ images # <<>>) =>
        LET img == images[current_image_index + 1]
            T   == tile_size
            C   == LeastCover(img.width, T)
            R   == LeastCover(img.height, T)
        IN  /\ T > 0
            /\ Len(tiles) = C * R
            /\ current_padded_image = [ width |-> C * T, height |-> R * T ]
            /\ \A i \in 0..(Len(tiles) - 1) :
                  /\ tiles[i + 1].row = i \div C
                  /\ tiles[i + 1].col = i % C
                  /\ tiles[i + 1].x = tiles[i + 1].col * T
                  /\ tiles[i + 1].y = tiles[i + 1].row * T
                  /\ tiles[i + 1].tile_img = [ width |-> T, height |-> T ]
            /\ \A x \in 0..(C * T - 1), y \in 0..(R * T - 1) :
                  Cardinality({ k \in 1..Len(tiles) : Covers(tiles[k], x, y) }) = 1
            /\ img.width <= C * T /\ img.height <= R * T

\* C4 witness: a 5 x 3 image tiled with tile size 2 into 3 x 2 tiles on a
\* padded canvas of 6 x 4.
C4_Witness ==
    /\ JustTiled
    /\ images # <<>>
    /\ images[1].width = 5 /\ images[1].height = 3
    /\ tile_size = 2
    /\ Len(tiles) = 6
    /\ tiles[6].x = 4 /\ tiles[6].y = 2
    /\ current_padded_image = [ width |-> 6, height |-> 4 ]

HasLabel(i) == i <= Len(tile_classifications)

\* C5: when save_mask_only has run, for every tile labelled with one of the
\* 10 categories the mask pixel at the centre of the tile's footprint equals
\* category_values[label].
C5_MaskRoundTrip ==
    app_message = "mask_saved" =>
        \A i \in 1..Len(tiles) :
            (HasLabel(i) /\ tile_classifications[i] \in CategorySet) =>
                LET cx == tiles[i].x + (tiles[i].tile_img.width \div 2)
                    cy == tiles[i].y + (tiles[i].tile_img.height \div 2)
                IN  /\ cy + 1 \in DOMAIN mask_array
                    /\ cx + 1 \in DOMAIN mask_array[cy + 1]
                    /\ mask_array[cy + 1][cx + 1] = category_values[tile_classifications[i]]

\* C6: in the mask of save_mask_only every pixel in the footprint of a tile
\* labelled 'Cloud', labelled with the empty string or not labelled holds
\* 255, a pixel holds another value only inside the footprint of a tile
\* labelled with a real category, and the mask has the size of the padded
\* image.
C6_MaskDefaultFill ==
    app_message = "mask_saved" =>
        /\ Len(mask_array) = current_padded_image.height
        /\ \A y \in 1..Len(mask_array) : Len(mask_array[y]) = current_padded_image.width
        /\ \A i \in 1..Len(tiles) :
              \A y \in 1..Len(mask_array) : \A x \in 1..Len(mask_array[y]) :
                  (Covers(tiles[i], x - 1, y - 1)
                     /\ (~HasLabel(i) \/ tile_classifications[i] \in { "", "Cloud" }))
                  => mask_array[y][x] = DefaultValue

-----------------------------------------------------------------------------
(* Cloud tiles and the category totals.                                     *)

\* the sum of the 10 per-category counts
SumCounts(counts) == SumSeq([ i \in 1..Len(CATEGORIES) |-> counts[CATEGORIES[i]] ])

\* the number of 'Cloud' labels in a list of labels
CloudLabels(labels) == Cardinality({ i \in 1..Len(labels) : labels[i] = "Cloud" })

\* the tile indices that classify_tiles has passed to classify_tile
PassedToClassifyTile == { ct_classified[j] : j \in 1..Len(ct_classified) }

-----------------------------------------------------------------------------
(* Band statistics of an all-zero image.                                    *)

OneThird == Frac(1, 3)

EqualThirds == [ blue |-> OneThird, green |-> OneThird, red |-> OneThird ]

\* the statistics analyze_image_bands is claimed to return for zero means
IsZeroFallback(stats) == stats.ratios = EqualThirds /\ stats.green_bias = FALSE

\* classify_tiles has run analyze_image_bands on a tile whose means are zero
ZeroTileAnalyzed ==
    /\ Len(ct_classifications) > 0
    /\ ct_tiles[Len(ct_classifications)].means = <<0, 0, 0>>

\* extract_tiles has run analyze_image_bands on an image whose means are zero
ZeroImageAnalyzed ==
    /\ batch_outcome \in { "returned", "ZeroDivisionError" }
    /\ batch_image.loads
    /\ batch_image.means = <<0, 0, 0>>

(* C12: for an all-zero image (the three channel means sum to 0)            *)
(* analyze_image_bands returns blue_ratio = green_ratio = red_ratio = 1/3   *)
(* and green_bias = False, and no ratio is NaN; in the tile selector's      *)
(* classifier and in the batch classifier.                                  *)
C12_ZeroImageRatios ==
    /\ ZeroTileAnalyzed => IsZeroFallback(ct_stats)
    /\ ZeroImageAnalyzed => IsZeroFallback(batch_stats)

-----------------------------------------------------------------------------
(* The tile size entry when Apply is pressed.                               *)

\* validate_tile_size lines 19-22: the entry holds a positive integer
ValidEntry == int(tile_size_var).ok /\ int(tile_size_var).val > 0

(* C13: when the tile size entered is non-positive or not an integer,       *)
(* apply_tile_size changes nothing: tile_size, tiles, selected_tiles,       *)
(* current_padded_image and tile_classifications keep their values.         *)
C13_InvalidEntryChangesNothing ==
    [][ (ApplyTileSize /\ ~ValidEntry) =>
            UNCHANGED <<tile_size, tiles, selected_tiles, current_padded_image,
                        tile_classifications>> ]_vars

-----------------------------------------------------------------------------
(* Tile sizes the batch classifier is to reject.                            *)

\* tile_size <= 0 or tile_size >= min(width, height) for the decoded image
TileSizeOutOfRange ==
    /\ batch_image.loads
    /\ \/ batch_tile_size <= 0
       \/ batch_tile_size >= Min(batch_image.width, batch_image.height)

(* C14: in the batch classifier, extract_tiles on a decoded image with      *)
(* tile_size <= 0 or tile_size >= min(width, height) fails with an error    *)
(* and never returns a tile list, empty or not.                             *)
C14_OutOfRangeNeverReturns ==
    TileSizeOutOfRange => batch_outcome # "returned"

-----------------------------------------------------------------------------
(* Index-based selections across regenerated grids.                         *)

\* the column count of the grid of a tile list
Columns(tl) == Cardinality({ tl[k].col : k \in 1..Len(tl) })

\* the <<row, col>> cells that a set of flat indices denotes in a tile list
SelectedCells(tl, sel) ==
    { <<tl[i + 1].row, tl[i + 1].col>> : i \in { j \in sel : j < Len(tl) } }

\* the step regenerates the tiles of the same image with another column count
RegeneratedWithOtherColumns ==
    /\ tiles # <<>> /\ tiles' # <<>>
    /\ tiles'[1].image_name = tiles[1].image_name
    /\ Columns(tiles') # Columns(tiles)

\* the <<row, col>> of the files the step's export wrote for the current image
ExportedCells ==
    { <<e[2], e[3]>> : e \in { f \in exported_tiles' :
                                 f[1] = images[current_image_index + 1].path } }

(* C15: a flat tile index stored while the grid had one column count is     *)
(* never read as a selection in a grid with a different column count: when  *)
(* apply_tile_size regenerates the tiles of an image with another column    *)
(* count, the tiles then selected are none or the cells selected before,    *)
(* and the tiles export_tiles writes for the current image are cells        *)
(* selected in the grid on display.                                         *)
C15_StaleSelectionsNotRead ==
    [][ /\ RegeneratedWithOtherColumns =>
              SelectedCells(tiles', selected_tiles') \subseteq
                  SelectedCells(tiles, selected_tiles)
        /\ (images # <<>> /\ app_message' = "exported") =>
              ExportedCells \subseteq SelectedCells(tiles, selected_tiles) ]_vars

-----------------------------------------------------------------------------
(* The tile list and the tile size.                                         *)

\* the tile was cut for tile size ts
GeneratedFor(tile, ts) ==
    /\ tile.tile_img = [ width |-> ts, height |-> ts ]
    /\ tile.x = tile.col * ts
    /\ tile.y = tile.row * ts

(* C16: in every reachable state of the tile selector every tile of         *)
(* app.tiles was generated for the current app.tile_size: it is tile_size x *)
(* tile_size and has x = col * tile_size, y = row * tile_size.              *)
C16_TilesMatchTileSize ==
    \A k \in 1..Len(tiles) : GeneratedFor(tiles[k], tile_size)

-----------------------------------------------------------------------------
(* The tile list and the loaded images.                                     *)

\* a handler that replaces the loaded images or switches the current image
LoadOrSwitch ==
    \/ UploadSelectionImages \/ UploadFolder \/ OnDrop
    \/ PrevImage \/ NextImage \/ OnImageSelect

\* the tile list is empty or holds tiles of images[current_image_index]
TilesOfCurrentImage ==
    tiles # <<>> =>
        /\ images # <<>>
        /\ current_image_index < Len(images)
        /\ \A k \in 1..Len(tiles) :
              tiles[k].image_name = images[current_image_index + 1].path

(* C17: after upload_images, upload_folder, on_drop, prev_image, next_image *)
(* and on_image_select, app.tiles holds the tiles of                        *)
(* images[current_image_index]: tiles is non-empty only if images is        *)
(* non-empty and current_image_index < len(images), also when every         *)
(* selected or dropped file fails to load.                                  *)
C17_TilesFollowImages ==
    [][ LoadOrSwitch => TilesOfCurrentImage' ]_vars

-----------------------------------------------------------------------------
(* The mask values of the categories.                                       *)

\* the value each category has after _init_variables: its ordinal index
OrdinalIndex(c) == (CHOOSE i \in 1..Len(CATEGORIES) : CATEGORIES[i] = c) - 1

(* C18: in every reachable state category_values maps each of the 10        *)
(* categories to an integer in 0..255, initially its ordinal index 0..9;    *)
(* update_category_value never stores a value outside 0..255.               *)
C18_CategoryValuesInRange ==
    /\ DOMAIN category_values = CategorySet
    /\ \A c \in CategorySet : category_values[c] \in 0..255

-----------------------------------------------------------------------------
(* The loop of classify_tiles and its progress callback.                    *)

\* the number of tiles of the list whose pass of the loop body has ended
TilesDone ==
    CASE ct_pc = "examine"  -> ct_i
      [] ct_pc = "callback" -> ct_i
      [] ct_pc = "returned" -> Len(ct_tiles)
      [] OTHER              -> 0

(* C19: classify_tiles processes the tiles in list order and, when a        *)
(* progress callback is given, calls it exactly once after each tile,       *)
(* tiles tagged 'Cloud' included, with the arguments (k, total) for         *)
(* k = 1, 2, ... and total = len(tiles); the k-th call is made when exactly *)
(* k labels have been appended, so after the k-th label and before tile     *)
(* k + 1 is examined; without tiles or without a callback no call is made.  *)
C19_SequentialProgress ==
    /\ \A k \in 1..Len(ct_classifications) :
          ct_classifications[k] = TileLabelOf(ct_tiles[k], ct_filter_clouds)
    /\ Len(ct_classifications) = IF ct_pc = "callback" THEN ct_i + 1 ELSE TilesDone
    /\ \A k \in 1..Len(ct_progress) :
          ct_progress[k] = [ current |-> k, total |-> Len(ct_tiles), labels |-> k ]
    /\ Len(ct_progress) = IF ct_callback THEN TilesDone ELSE 0
    /\ ct_tiles = <<>> => ct_progress = <<>>

\* a call with a callback has returned after a cloud tile and another tile
C19_Witness ==
    /\ ct_pc = "returned"
    /\ ct_callback
    /\ Len(ct_progress) = Len(ct_tiles)
    /\ \E i, j \in 1..Len(ct_classifications) :
          ct_classifications[i] = "Cloud" /\ ct_classifications[j] # "Cloud"

-----------------------------------------------------------------------------
(* Tiling without an image.                                                 *)

\* the outcomes of a handler of the tile selector that report an error
ErrorOutcomes == { "tile_size_error", "tiled_after_tile_size_error",
                   "load_failed", "exception" }

(* C20: tiling with no image ends in an error outcome and is no silent      *)
(* no-op: apply_tile_size with no images loaded reports an error, and       *)
(* extract_tiles on an image that cannot be decoded does not return         *)
(* normally.                                                                *)
C20_NoImageIsAnError ==
    [][ /\ (ApplyTileSize /\ images = <<>>) => app_message' \in ErrorOutcomes
        /\ (ExtractTiles /\ ~batch_image'.loads) => batch_outcome' # "returned" ]_vars

-----------------------------------------------------------------------------
\* what an entry of tile_classifications may be
LabelSet == CategorySet \cup { "Cloud" }

(* C21: after any sequence of classify_tiles_lulc, _change_tile_category   *)
(* and _batch_assign_category every entry of tile_classifications is one   *)
(* of the ten categories or 'Cloud'; in classify_tiles a tile is labelled  *)
(* 'Cloud' only when the cloud detector flagged it, and classify_tile      *)
(* never returns 'Cloud' for a tile.                                       *)
C21_LabelsAreCategoriesOrCloud ==
    /\ \A i \in 1..Len(tile_classifications) : tile_classifications[i] \in LabelSet
    /\ \A k \in 1..Len(ct_classifications) :
          /\ ct_classifications[k] \in LabelSet
          /\ ct_classifications[k] = "Cloud" =>
                 ct_filter_clouds /\ detect_cloud(ct_tiles[k], CloudThreshold)
    /\ \A k \in 1..Len(ct_tiles) : classify_tile(ct_tiles[k].f) \in CategorySet

\* two tiles were classified, then one was relabelled 'Cloud' from a menu
\* while the next classification was reporting progress
C21_Witness ==
    /\ Len(tile_classifications) = 2
    /\ tile_classifications[1] = "River"
    /\ tile_classifications[2] = "Cloud"
    /\ category_counts["River"] = 1
    /\ app_message = "none"
    /\ ct_pc = "callback"
    /\ ct_classifications = << "Cloud" >>

\* a step of an operation that regenerates the tile list
RegeneratesTiles ==
    \/ (images # <<>> /\ (ApplyTileSize \/ TogglePreprocessing \/ NextImage))
    \/ (UploadSmallImages /\ images' # <<>>)

(* C22: tile_classifications is empty or has exactly len(tiles) entries,   *)
(* and every operation that regenerates the tile list (apply_tile_size,    *)
(* toggle_preprocessing, next_image, a successful upload) leaves it empty. *)
C22_ClassificationsMatchTiles ==
    [][ /\ (tile_classifications' = <<>>
              \/ Len(tile_classifications') = Len(tiles'))
        /\ (RegeneratesTiles => tile_classifications' = <<>>) ]_vars

\* detect_cloud has returned for the tile in tile_array
CloudDetected == cloud_result # NoCloudResult

\* number of pixels of tile_array with v > 200 and s < 40
BrightCount == Cardinality({ i \in 1..Len(tile_array) :
                              tile_array[i].v > 200 /\ tile_array[i].s < 40 })

(* C23: detect_cloud returns as cloud score the number of pixels with      *)
(* V > 200 and S < 40 divided by the number of pixels, a value in [0, 1],  *)
(* and is_cloud exactly when the score is strictly above the threshold: a  *)
(* ratio equal to the threshold is not a cloud, and a tile of bright       *)
(* unsaturated pixels only is a cloud for every threshold below 1.         *)
C23_CloudScore ==
    CloudDetected =>
        LET score == cloud_result.cloud_pixel_ratio
        IN  /\ score = << BrightCount, Len(tile_array) >>
            /\ 0 <= score[1] /\ score[1] <= score[2]
            /\ cloud_result.is_cloud <=>
                   score[1] * cloud_threshold[2] > cloud_threshold[1] * score[2]
            /\ score[1] * cloud_threshold[2] = cloud_threshold[1] * score[2] =>
                   ~cloud_result.is_cloud
            /\ (score[1] = score[2] /\ cloud_threshold[1] < cloud_threshold[2]) =>
                   cloud_result.is_cloud

\* half the pixels of a 4-pixel tile are bright and unsaturated and the
\* threshold is 1/2: not a cloud
C23_Witness ==
    /\ CloudDetected
    /\ Len(tile_array) = 4
    /\ cloud_threshold = <<1, 2>>
    /\ cloud_result.cloud_pixel_ratio = <<2, 4>>
    /\ ~cloud_result.is_cloud

\* control reaches the vegetation block: none of the six blocks before it
\* has returned
VegetationReached(f) == \A k \in 1..6 : ~RuleFires(k, f)

(* C24: the two-way sub-decisions of the cascade are exhaustive.  When the *)
(* water precondition holds classify_tile returns SeaLake if               *)
(* edge_density < 0.08 and color_variance < 25 and River otherwise, never  *)
(* falling through; when the vegetation block is reached with              *)
(* g_ratio > 0.35 and ndvi > 0.05 it returns Pasture if                    *)
(* color_variance < 20 and saturation < 60 and HerbaceousVegetation        *)
(* otherwise.                                                              *)
C24_SubDecisionsExhaustive ==
    cstage = "classified" =>
        /\ WaterCondition(features) =>
               category = IF features.edge_density < 80 /\ features.color_variance < 25
                          THEN "SeaLake" ELSE "River"
        /\ (VegetationReached(features) /\ GRatioGT(features, 35)
              /\ NdviGT(features, 5, 100)) =>
               category = IF features.color_variance < 20 /\ features.saturation < 60
                          THEN "Pasture" ELSE "HerbaceousVegetation"

\* a blue tile with edge_density exactly 0.08 and a low colour variance
C24_Witness ==
    /\ cstage = "classified"
    /\ WaterCondition(features)
    /\ features.edge_density = 80
    /\ features.color_variance < 25
    /\ category = "River"

\* channel ratios of a raster made of the given equal-sized tiles
RasterRatios(tls) ==
    LET RECURSIVE SumOf(_, _)
        SumOf(c, k) == IF k = 0 THEN 0 ELSE tls[k].means[c] + SumOf(c, k - 1)
        total == SumOf(1, Len(tls)) + SumOf(2, Len(tls)) + SumOf(3, Len(tls))
        ratio(c) == IF total = 0 THEN NaN ELSE Frac(SumOf(c, Len(tls)), total)
    IN  [ blue |-> ratio(1), green |-> ratio(2), red |-> ratio(3) ]

(* C25: with colour correction enabled the band statistics are those of   *)
(* the whole raster and each tile examined by classify_tiles_lulc has      *)
(* passed the Band Corrector at most once, also when the tiles were cut    *)
(* with the Preprocess toggle on.                                          *)
C25_CorrectedOncePerRaster ==
    (ct_caller = "app" /\ ct_classifications # <<>>) =>
        /\ ct_stats.ratios = RasterRatios(ct_tiles)
        /\ \A k \in 1..Len(ct_tiles) : ct_passes[k] <= 1

\* what the fallback scoring can return
FallbackCategories == { "Pasture", "Forest", "Industrial" }

(* C27: the fallback scoring of classify_tile returns Pasture, Forest or   *)
(* Industrial only: whatever the three tests g_ratio > 0.34,               *)
(* edge_density > 0.10 and brightness > 120 yield, HerbaceousVegetation    *)
(* and AnnualCrop never hold the first maximum score, so a tile that no    *)
(* rule of the cascade claims gets one of the three, and those two         *)
(* categories come from rules 5 and 7 of the cascade only.                 *)
C27_FallbackCategories ==
    cstage # "idle" =>
        /\ DefaultClassification(features) \in FallbackCategories
        /\ (cstage = "classified" /\ NoRuleFires(features)) =>
               category \in FallbackCategories
        /\ (cstage = "classified" /\ category = "AnnualCrop") =>
               Rule(5, features) = "AnnualCrop"
        /\ (cstage = "classified" /\ category = "HerbaceousVegetation") =>
               Rule(7, features) = "HerbaceousVegetation"

\* no rule fires for a red tile with many edges that is dark: Forest and
\* AnnualCrop are scored, Forest wins with 2
C27_Witness ==
    /\ cstage = "classified"
    /\ NoRuleFires(features)
    /\ ~GRatioGT(features, 34)
    /\ features.edge_density > 100
    /\ features.brightness <= 120
    /\ category = "Forest"

\* the tile has exactly tile_size x tile_size pixels for the batch classifier
SquareOfTileSize == tile_shape = << dataset_tile_size, dataset_tile_size >>

\* both classify_tile implementations have returned for the tile
BothClassified == cstage = "classified" /\ dataset_category # NoReturn

TileIndices == 0..(Len(tiles) - 1)

(* C28: every index in selected_tiles_for_category and in selected_tiles   *)
(* is an index of the current tile list, and the selection for batch       *)
(* assignment does not survive an operation that regenerates the tiles (a  *)
(* tile size change, an image switch).                                     *)
C28_SelectionsAreTileIndices ==
    [][ /\ selected_tiles_for_category' \subseteq TileIndices'
        /\ selected_tiles' \subseteq TileIndices'
        /\ (RegeneratesTiles => selected_tiles_for_category' = {}) ]_vars

\* path of the image at a 0-based index
PathAt(index) == images[index + 1].path

\* a step of next_image or prev_image with an image loaded that leaves
\* tile_size as it was
SwitchKeepingTileSize ==
    (NextImage \/ PrevImage) /\ images # <<>> /\ tile_size' = tile_size

\* selected_tiles after a switch from image 'from' showing 'selection' to
\* image 'to', the dict being sels and the tile size ts
SelectionAfterSwitch(from, to, selection, sels, ts) ==
    RestoredSelection(images[to + 1], ts, DictSet(sels, PathAt(from), selection))

(* C29: with an image loaded and tile_size unchanged, next_image followed  *)
(* by prev_image (and the reverse) restores current_image_index and        *)
(* selected_tiles: a switch moves the index by one modulo len(images),     *)
(* staying in 0..len(images)-1, and saves the selection of the image left  *)
(* under its path; the opposite switch made next leads back to the index   *)
(* and to the selection the first one started from.                        *)
C29_NavigationRoundTrip ==
    [][ SwitchKeepingTileSize =>
          /\ current_image_index' \in 0..(Len(images) - 1)
          /\ NextImage => /\ current_image_index' = (current_image_index + 1) % Len(images)
                          /\ (current_image_index' - 1) % Len(images) = current_image_index
          /\ PrevImage => /\ current_image_index' = (current_image_index - 1) % Len(images)
                          /\ (current_image_index' + 1) % Len(images) = current_image_index
          /\ DictGet(image_tile_selections', PathAt(current_image_index)) = selected_tiles
          /\ SelectionAfterSwitch(current_image_index', current_image_index,
                                  selected_tiles', image_tile_selections',
                                  tile_size') = selected_tiles
      ]_vars

(* C30: the per-class metrics built by _compute_and_show_matrix hold      *)
(* exactly one entry per included pixel value, in the order of            *)
(* known_values, also when two pixel values were given the same class     *)
(* name: len(per_class) == len(known_values) and entry i is that of       *)
(* known_values[i].                                                        *)
C30_OneEntryPerValue ==
    acc_stage = "shown" =>
        /\ Len(per_class) = Len(known_values)
        /\ \A i \in 1..Len(per_class) : per_class[i].value = known_values[i]

====
